---- MODULE Spec2Model ----
(***************************************************************************)
(* CrossPacket (generate.py): the schema model, the naming functions, the  *)
(* type table, the nine emitters and main(), as a state machine.           *)
(*                                                                         *)
(* Identifiers that the naming functions take apart (field names, packet   *)
(* paths, the type-identifier field name) are sequences of one-character   *)
(* strings; Str turns such a sequence into the text that is written into   *)
(* an artifact or a file name.  Type tags and native type names are plain  *)
(* strings.  An optional Python value (None or a value) is a sequence of   *)
(* length 0 or 1.                                                          *)
(*                                                                         *)
(* Spec is a run of main(): flags, configuration, parsing, the emitters.   *)
(* SpecRT is the generated Dart, Python and TypeScript code at run time    *)
(* after a complete run: construct, serialize, deserialize, dispatch.      *)
(* SpecNames applies the naming functions to identifiers.  SpecSec calls   *)
(* the functions of the generated Python validation helper.                *)
(* SpecCpp takes a bytes field through the generated C++ ToJson/FromJson.   *)
(***************************************************************************)
EXTENDS Integers, Sequences, FiniteSets, TLC

VARIABLES
    pc,          \* position of main(): start, load, parse, emit, done, exit1, return
    args,        \* the parsed command line (argparse namespace)
    config,      \* the schema document, <<>> when the file does not exist
    type_field,  \* main's type_field
    no_msgpack,  \* main's merged no_msgpack
    no_json,     \* main's merged no_json
    packets,     \* main's list of PacketDefinition
    pidx,        \* index of the next packet of config["packets"] to parse
    started,     \* the emitters whose generate() has been called, in call order
    fs,          \* the file system: path -> content
    dirs,        \* the directories that exist
    fs0,         \* the file system when the run began
    dirs0,       \* the directories when the run began
    out,         \* what the run printed as its fatal error (<<>> when none)
    rt           \* the last call made: encode/decode/dispatch of the generated code at
                 \* run time, a naming function applied to an identifier, a
                 \* function of the validation helper applied to its arguments,
                 \* or a bytes field of the generated C++ code

vars == <<pc, args, config, type_field, no_msgpack, no_json, packets, pidx,
          started, fs, dirs, fs0, dirs0, out, rt>>

(***************************************************************************)
(* Bounds of the model                                                     *)
(***************************************************************************)
MaxPackets == 2      \* packets in a schema document

(***************************************************************************)
(* Characters and text                                                     *)
(***************************************************************************)
LowerChars == <<"a","b","c","d","e","f","g","h","i","j","k","l","m",
                "n","o","p","q","r","s","t","u","v","w","x","y","z">>
UpperChars == <<"A","B","C","D","E","F","G","H","I","J","K","L","M",
                "N","O","P","Q","R","S","T","U","V","W","X","Y","Z">>

IsUpper(c) == \E i \in DOMAIN UpperChars : UpperChars[i] = c
IsLower(c) == \E i \in DOMAIN LowerChars : LowerChars[i] = c
Upper(c) == IF IsLower(c)
            THEN UpperChars[CHOOSE i \in DOMAIN LowerChars : LowerChars[i] = c]
            ELSE c
Lower(c) == IF IsUpper(c)
            THEN LowerChars[CHOOSE i \in DOMAIN UpperChars : UpperChars[i] = c]
            ELSE c

\* str.lower()
LowerStr(s) == [i \in DOMAIN s |-> Lower(s[i])]

\* str.capitalize(): first character upper, the rest lower
Capitalize(w) == [i \in DOMAIN w |-> IF i = 1 THEN Upper(w[i]) ELSE Lower(w[i])]

\* str.split(sep) for a one-character separator
RECURSIVE Split(_, _)
Split(s, sep) ==
    IF \A i \in DOMAIN s : s[i] # sep
    THEN <<s>>
    ELSE LET i == CHOOSE k \in DOMAIN s : s[k] = sep /\ \A j \in 1..(k-1) : s[j] # sep
         IN  <<SubSeq(s, 1, i - 1)>> \o Split(SubSeq(s, i + 1, Len(s)), sep)

\* "".join(seq of character sequences)
RECURSIVE Concat(_)
Concat(ws) == IF ws = <<>> THEN <<>> ELSE Head(ws) \o Concat(Tail(ws))

\* the text of a character sequence, as an f-string writes it
RECURSIVE Str(_)
Str(s) == IF s = <<>> THEN "" ELSE Head(s) \o Str(Tail(s))

(***************************************************************************)
(* Name Convention Engine                                                  *)
(***************************************************************************)
to_pascal_case(text) ==
    IF text # <<>> /\ IsUpper(text[1]) /\ (\A i \in DOMAIN text : text[i] # "_")
    THEN text
    ELSE Concat([i \in DOMAIN Split(text, "_") |-> Capitalize(Split(text, "_")[i])])

\* re.sub(r"(?<!^)(?=[A-Z])", "_", text).lower()
to_snake_case(text) ==
    LowerStr(Concat([i \in DOMAIN text |->
        IF i > 1 /\ IsUpper(text[i]) THEN <<"_", text[i]>> ELSE <<text[i]>>]))

to_camel_case(text) ==
    LET parts == Split(text, "_")
    IN  LowerStr(parts[1]) \o
        Concat([i \in 1..(Len(parts) - 1) |-> Capitalize(parts[i + 1])])

(***************************************************************************)
(* Dictionaries: a Python dict is a function; d.get(k, default)            *)
(***************************************************************************)
Get(d, k, default) == IF k \in DOMAIN d THEN d[k] ELSE default

None == <<>>
Some(x) == <<x>>

(***************************************************************************)
(* Type Tag Table                                                          *)
(***************************************************************************)
TYPE_MAPPINGS == [
    int |->
        [dart |-> "int",
         python |-> "int",
         java |-> "long",
         typescript |-> "number",
         rust |-> "i64",
         go |-> "int64",
         cpp |-> "int64_t",
         csharp |-> "long",
         php |-> "int"],
    float |->
        [dart |-> "double",
         python |-> "float",
         java |-> "double",
         typescript |-> "number",
         rust |-> "f64",
         go |-> "float64",
         cpp |-> "double",
         csharp |-> "double",
         php |-> "float"],
    double |->
        [dart |-> "double",
         python |-> "float",
         java |-> "double",
         typescript |-> "number",
         rust |-> "f64",
         go |-> "float64",
         cpp |-> "double",
         csharp |-> "double",
         php |-> "float"],
    bool |->
        [dart |-> "bool",
         python |-> "bool",
         java |-> "boolean",
         typescript |-> "boolean",
         rust |-> "bool",
         go |-> "bool",
         cpp |-> "bool",
         csharp |-> "bool",
         php |-> "bool"],
    string |->
        [dart |-> "String",
         python |-> "str",
         java |-> "String",
         typescript |-> "string",
         rust |-> "String",
         go |-> "string",
         cpp |-> "std::string",
         csharp |-> "string",
         php |-> "string"],
    datetime |->
        [dart |-> "DateTime",
         python |-> "datetime",
         java |-> "ZonedDateTime",
         typescript |-> "Date",
         rust |-> "DateTime<Utc>",
         go |-> "time.Time",
         cpp |-> "std::string",
         csharp |-> "DateTimeOffset",
         php |-> "DateTimeImmutable"],
    time |->
        [dart |-> "TimeOfDay",
         python |-> "time",
         java |-> "LocalTime",
         typescript |-> "string",
         rust |-> "NaiveTime",
         go |-> "string",
         cpp |-> "std::string",
         csharp |-> "TimeSpan",
         php |-> "string"],
    bytes |->
        [dart |-> "Uint8List",
         python |-> "bytes",
         java |-> "byte[]",
         typescript |-> "Uint8Array",
         rust |-> "Vec<u8>",
         go |-> "[]byte",
         cpp |-> "std::vector<uint8_t>",
         csharp |-> "byte[]",
         php |-> "string"],
    list |->
        [dart |-> "List<dynamic>",
         python |-> "List[Any]",
         java |-> "List<Object>",
         typescript |-> "any[]",
         rust |-> "Vec<serde_json::Value>",
         go |-> "[]interface{}",
         cpp |-> "std::string",
         csharp |-> "List<object>",
         php |-> "array"],
    list_int |->
        [dart |-> "List<int>",
         python |-> "List[int]",
         java |-> "List<Long>",
         typescript |-> "number[]",
         rust |-> "Vec<i64>",
         go |-> "[]int64",
         cpp |-> "std::vector<int64_t>",
         csharp |-> "List<long>",
         php |-> "array"],
    list_string |->
        [dart |-> "List<String>",
         python |-> "List[str]",
         java |-> "List<String>",
         typescript |-> "string[]",
         rust |-> "Vec<String>",
         go |-> "[]string",
         cpp |-> "std::vector<std::string>",
         csharp |-> "List<string>",
         php |-> "array"],
    map |->
        [dart |-> "Map<String, dynamic>",
         python |-> "Dict[str, Any]",
         java |-> "Map<String, Object>",
         typescript |-> "Record<string, any>",
         rust |-> "HashMap<String, serde_json::Value>",
         go |-> "map[string]interface{}",
         cpp |-> "std::string",
         csharp |-> "Dictionary<string, object>",
         php |-> "array"],
    embedded_map |->
        [dart |-> "Map<dynamic, dynamic>",
         python |-> "Dict[Any, Any]",
         java |-> "Map<Object, Object>",
         typescript |-> "Map<any, any>",
         rust |-> "HashMap<String, serde_json::Value>",
         go |-> "map[string]interface{}",
         cpp |-> "std::string",
         csharp |-> "Dictionary<string, object>",
         php |-> "array"],
    map_string_dynamic |->
        [dart |-> "Map<String, dynamic>",
         python |-> "Dict[str, Any]",
         java |-> "Map<String, Object>",
         typescript |-> "Record<string, any>",
         rust |-> "HashMap<String, serde_json::Value>",
         go |-> "map[string]interface{}",
         cpp |-> "std::string",
         csharp |-> "Dictionary<string, object>",
         php |-> "array"]
]

\* a lookup whose miss yields nothing instead of the default
NativeType_NoDefault(tag, target, default) == Get(Get(TYPE_MAPPINGS, tag, <<>>), target, "")

\* TYPE_MAPPINGS.get(tag, {}).get(target, default)
NativeType(tag, target, default) == Get(Get(TYPE_MAPPINGS, tag, <<>>), target, default)

(***************************************************************************)
(* Schema Model                                                            *)
(***************************************************************************)
\* a raw field definition is a bare type-tag string or a dict
ShortForm(tag) == [str |-> tag]
IsStr(field_def) == DOMAIN field_def = {"str"}

PacketField_ShorthandOptional(name, field_def) ==
    [name        |-> name,
     type        |-> IF IsStr(field_def) THEN field_def.str ELSE Get(field_def, "type", "string"),
     description |-> Get(field_def, "description", None),
     optional    |-> Get(field_def, "optional", TRUE),
     deprecated  |-> Get(field_def, "deprecated", FALSE),
     validation  |-> Get(field_def, "validation", <<>>)]
PacketField(name, field_def) ==
    IF IsStr(field_def)
    THEN [name        |-> name,
          type        |-> field_def.str,
          description |-> None,
          optional    |-> FALSE,
          deprecated  |-> FALSE,
          validation  |-> <<>>]
    ELSE [name        |-> name,
          type        |-> Get(field_def, "type", "string"),
          description |-> Get(field_def, "description", None),
          optional    |-> Get(field_def, "optional", FALSE),
          deprecated  |-> Get(field_def, "deprecated", FALSE),
          validation  |-> Get(field_def, "validation", <<>>)]

\* PacketDefinition.__init__: fields_def.items() is a sequence of <<name, def>>
PacketDefinition(path, definition) ==
    LET fields_def == Get(definition, "fields", <<>>)
        segs == Split(path, "/")
    IN  [path        |-> path,
         name        |-> to_pascal_case(segs[Len(segs)]),
         description |-> Get(definition, "description", ""),
         version     |-> Get(definition, "version", 1),
         deprecated  |-> Get(definition, "deprecated", FALSE),
         fields      |-> [i \in DOMAIN fields_def |->
                             PacketField(fields_def[i][1], fields_def[i][2])]]

has_datetime(packet) == \E i \in DOMAIN packet.fields : packet.fields[i].type = "datetime"
has_time(packet) == \E i \in DOMAIN packet.fields : packet.fields[i].type = "time"
has_embedded_map(packet) ==
    \E i \in DOMAIN packet.fields : packet.fields[i].type = "embedded_map"
has_bytes(packet) == \E i \in DOMAIN packet.fields : packet.fields[i].type = "bytes"

(***************************************************************************)
(* The inputs of a run: identifiers, field definitions, schema documents   *)
(***************************************************************************)
N_user_id    == <<"u","s","e","r","_","i","d">>
N_at         == <<"a","t">>
N_tags       == <<"t","a","g","s">>
N_body       == <<"b","o","d","y">>
N_id         == <<"i","d">>
N_kind       == <<"k","i","n","d">>
N_packetType == <<"p","a","c","k","e","t","T","y","p","e">>
N_data       == <<"d","a","t","a">>
N_nums       == <<"n","u","m","s">>
N_extra      == <<"e","x","t","r","a">>
N_meta       == <<"m","e","t","a">>
N_due        == <<"d","u","e">>
N_is_ok      == <<"i","s","_","o","k">>

Path_user_login == <<"u","s","e","r","/","l","o","g","i","n">>
Path_chat_msg   == <<"c","h","a","t","/","m","s","g">>
Path_sys_evt    == <<"s","y","s","/","e","v","t">>
Path_ping       == <<"p","i","n","g">>
Path_a_login    == <<"a","/","l","o","g","i","n">>

\* <<path, definition>> pairs as config["packets"].items() yields them
PacketPool == {
    \* the scenario of the specification
    <<Path_user_login,
      [description |-> "User login",
       fields |-> << <<N_user_id, ShortForm("int")>>,
                     <<N_at, ShortForm("datetime")>>,
                     <<N_tags, [type |-> "list_string", optional |-> TRUE]>> >>]>>,
    \* a field named like the default type-identifier field
    <<Path_chat_msg,
      [fields |-> << <<N_packetType, ShortForm("string")>>,
                     <<N_body, [type |-> "string", description |-> Some("text")]>> >>]>>,
    \* fields named like both type-identifier field names, not first in the packet
    <<Path_sys_evt,
      [version |-> 2, deprecated |-> TRUE,
       fields |-> << <<N_id, ShortForm("int")>>,
                     <<N_kind, [type |-> "int", validation |-> [min |-> 0]]>>,
                     <<N_packetType, [optional |-> TRUE]>> >>]>>,
    \* no fields at all
    <<Path_ping, <<>>>>,
    \* same last path segment as user/login; the remaining type tags
    <<Path_a_login,
      [deprecated |-> TRUE,
       fields |-> << <<N_data, ShortForm("bytes")>>,
                     <<N_nums, [type |-> "list_int", optional |-> TRUE, deprecated |-> TRUE,
                                validation |-> [max_length |-> 3]]>>,
                     <<N_extra, ShortForm("uuid")>>,
                     <<N_meta, ShortForm("embedded_map")>>,
                     <<N_due, [type |-> "time", optional |-> FALSE, deprecated |-> FALSE,
                               validation |-> <<>>]>>,
                     <<N_is_ok, [type |-> "bool", optional |-> TRUE]>> >>]>>
}

\* the "packets" section: up to MaxPackets entries with distinct paths, in document order
RECURSIVE SeqsUpTo(_, _)
SeqsUpTo(S, n) ==
    IF n = 0 THEN {<<>>}
    ELSE LET shorter == SeqsUpTo(S, n - 1)
         IN  shorter \cup {Append(q, x) : q \in {r \in shorter : Len(r) = n - 1}, x \in S}

PacketsSections ==
    {q \in SeqsUpTo(PacketPool, MaxPackets) :
        \A i, j \in DOMAIN q : i # j => q[i][1] # q[j][1]}

\* config.global.serialization
SerializationPool == {<<>>,
                      [msgpack |-> FALSE],
                      [msgpack |-> FALSE, json |-> FALSE],
                      [msgpack |-> TRUE, json |-> FALSE]}

\* config.global: with or without type_field
GlobalPool == {[serialization |-> s] : s \in SerializationPool}
         \cup {[serialization |-> s, type_field |-> N_kind] : s \in SerializationPool}

ConfigPool == {[config |-> [global |-> g], packets |-> p] :
                  g \in GlobalPool, p \in PacketsSections}

Targets == {"dart", "python", "java", "typescript", "rust", "go", "cpp", "csharp", "php"}
\* the order of main()'s "if args.<target> or args.all" blocks
TargetOrder == <<"dart", "python", "java", "typescript", "rust", "go", "cpp", "csharp", "php">>

(***************************************************************************)
(* The file system the emitters write to                                   *)
(***************************************************************************)
\* Path(config.get("output_dir", "./generated/<target>")), default configuration
OutputDir(target) == "./generated/" \o target

File(dir, stem, ext) == [dir |-> dir, stem |-> stem, ext |-> ext]

\* filepath.write_text(content)
WriteText(f, path, content) ==
    [q \in DOMAIN f \cup {path} |-> IF q = path THEN content ELSE f[q]]

\* if not filepath.exists() or override: filepath.write_text(content)
WriteUnlessExists(f, path, content, override) ==
    IF path \notin DOMAIN f \/ override THEN WriteText(f, path, content) ELSE f

\* for file in dir.glob("*.<ext>"): file.unlink()
Unlink_WholeTree(f, dir, ext) ==
    [q \in {r \in DOMAIN f : FALSE} |-> f[q]]
Unlink(f, dir, ext) ==
    [q \in {r \in DOMAIN f : ~(r.dir = dir /\ r.ext = ext)} |-> f[q]]

\* the per-packet loop of generate(): files is the sequence of <<path, content>>
RECURSIVE WritePackets(_, _, _)
WritePackets(f, files, override) ==
    IF files = <<>> THEN f
    ELSE WritePackets(WriteUnlessExists(f, files[1][1], files[1][2], override),
                      Tail(files), override)

\* output_dir.mkdir(parents=True, exist_ok=True)
Mkdir(ds, target) == ds \cup {"./generated", OutputDir(target)}

\* a declared storage type: the native type name and what the emitter wraps it in
Storage(base, wrap) == [base |-> base, wrap |-> wrap]

\* the serialization operations an artifact holds: "if not self.no_json", "if not self.no_msgpack"
JsonOps(nj) == IF nj THEN {} ELSE {"toJson", "fromJson"}
MsgPackOps(nm) == IF nm THEN {} ELSE {"toMsgPack", "fromMsgPack"}

\* the <<path, content>> pairs of the per-packet loop: one file per packet
PacketFiles(pkts, dir, stem(_), ext, content(_)) ==
    [i \in DOMAIN pkts |-> <<File(dir, stem(pkts[i]), ext), content(pkts[i])>>]

SnakeStem(packet) == Str(to_snake_case(packet.name))
NameStem(packet) == Str(packet.name)

(***************************************************************************)
(* DartGenerator                                                           *)
(***************************************************************************)
\* PacketField.dart_type
dart_type(field) ==
    Storage(NativeType(field.type, "dart", "dynamic"), IF field.optional THEN "?" ELSE "")

dart_encode(field) ==
    CASE field.type = "datetime" -> "_formatDateTimeWithTimezone"
      [] field.type = "time" -> "padLeft(2):padLeft(2)"
      [] field.type \in {"int", "float", "double", "bool", "string"} -> "value"
      [] field.type \in {"list", "list_int", "list_string", "map", "embedded_map",
                         "map_string_dynamic"} -> "value"
      [] field.type = "bytes" -> "base64Encode"
      [] OTHER -> "toJson"

dart_decode(field) ==
    CASE field.type = "datetime" -> "DateTime.parse"
      [] field.type = "time" -> "TimeOfDay(split)"
      [] field.type \in {"int", "bool", "string"} -> "value"
      [] field.type \in {"float", "double"} -> "toDouble"
      [] field.type = "list" -> "as List"
      [] field.type = "list_int" -> "map as int"
      [] field.type = "list_string" -> "map toString"
      [] field.type = "embedded_map" -> "_deepConvertMap"
      [] field.type \in {"map", "map_string_dynamic"} -> "Map.from"
      [] field.type = "bytes" -> "base64Decode"
      [] OTHER -> "value"

DartGeneratePacket(packet, tf, nm, nj) ==
    [kind        |-> "packet",
     target      |-> "dart",
     class       |-> Str(packet.name),
     type_const  |-> Str(packet.path),
     type_key    |-> Str(tf),
     description |-> packet.description,
     type_mkey   |-> Str(tf),
     ops         |-> JsonOps(nj) \cup MsgPackOps(nm),
     fields      |-> [i \in DOMAIN packet.fields |->
         LET field == packet.fields[i]
             t == dart_type(field)
         IN  [name        |-> Str(field.name),
              description |-> field.description,
              storage     |-> IF t.wrap # "?" THEN Storage(t.base, "?") ELSE t,
              key         |-> Str(field.name),
              mkey        |-> Str(field.name),
              enc         |-> dart_encode(field),
              menc        |-> dart_encode(field),
              dec         |-> dart_decode(field)]]]

\* the switch of DataPacket.deserialize: one case per packet, then default: throw
DartGenerateBaseClass(pkts, tf, nm, nj) ==
    [kind        |-> "base",
     target      |-> "dart",
     type_key    |-> Str(tf),
     ops         |-> JsonOps(nj) \cup MsgPackOps(nm),
     imports     |-> [i \in DOMAIN pkts |-> Str(to_snake_case(pkts[i].name))],
     time_of_day |-> \E i \in DOMAIN pkts : has_time(pkts[i]),
     has_dispatch |-> TRUE,
     dispatch    |-> [i \in DOMAIN pkts |->
                         [key |-> Str(pkts[i].path), class |-> Str(pkts[i].name)]],
     unknown     |-> "UnimplementedError: Unknown packet type: "]

DartGenerate(f, pkts, override, clean, nm, nj, tf) ==
    LET generated_dir == OutputDir("dart") \o "/generated"
        f1 == IF clean THEN Unlink(f, generated_dir, "dart") ELSE f
        f2 == WriteUnlessExists(f1, File(OutputDir("dart"), "data_packet", "dart"),
                                DartGenerateBaseClass(pkts, tf, nm, nj), override)
        content(p) == DartGeneratePacket(p, tf, nm, nj)
    IN  WritePackets(f2, PacketFiles(pkts, generated_dir, SnakeStem, "dart", content), override)

(***************************************************************************)
(* PythonGenerator                                                         *)
(***************************************************************************)
python_type(field) == Storage(NativeType(field.type, "python", "Any"), "Optional")

python_encode(field) ==
    CASE field.type = "datetime" -> "isoformat if value else None"
      [] field.type = "time" -> "isoformat if value else None"
      [] OTHER -> "value"

python_decode(field) ==
    CASE field.type = "datetime" -> "datetime.fromisoformat if value else None"
      [] field.type = "time" -> "time.fromisoformat if value else None"
      [] field.type = "list" -> "value"
      [] field.type = "list_int" -> "[int(x)] if value else None"
      [] field.type = "list_string" -> "[str(x)] if value else None"
      [] field.type \in {"map", "embedded_map", "map_string_dynamic"} -> "value"
      [] field.type = "int" -> "int if value is not None else None"
      [] field.type \in {"float", "double"} -> "float if value is not None else None"
      [] field.type = "bool" -> "bool if value is not None else None"
      [] OTHER -> "value"

PythonGeneratePacket(packet, tf, nm, nj) ==
    [kind        |-> "packet",
     target      |-> "python",
     class       |-> Str(packet.name),
     type_const  |-> Str(packet.path),
     type_key    |-> Str(tf),
     description |-> packet.description,
     type_mkey   |-> Str(tf),
     ops         |-> JsonOps(nj) \cup MsgPackOps(nm),
     fields      |-> [i \in DOMAIN packet.fields |->
         LET field == packet.fields[i]
         IN  [name        |-> Str(field.name),
              description |-> None,
              storage     |-> python_type(field),
              key         |-> Str(field.name),
              mkey        |-> Str(field.name),
              enc         |-> python_encode(field),
              menc        |-> python_encode(field),
              dec         |-> python_decode(field)]]]

\* __init__.py: deserialize_packet, one "if packet_type ==" per packet, then raise
PythonGenerateInit(pkts, tf) ==
    [kind        |-> "base",
     target      |-> "python",
     type_key    |-> Str(tf),
     ops         |-> {},
     imports     |-> [i \in DOMAIN pkts |-> Str(to_snake_case(pkts[i].name))],
     time_of_day |-> FALSE,
     has_dispatch |-> TRUE,
     dispatch    |-> [i \in DOMAIN pkts |->
                         [key |-> Str(pkts[i].path), class |-> Str(pkts[i].name)]],
     unknown     |-> "ValueError: Unknown packet type: "]

PythonGenerateSecurityUtils == [kind |-> "support", target |-> "python"]

PythonGenerate(f, pkts, override, clean, nm, nj, tf) ==
    LET dir == OutputDir("python")
        f1 == IF clean THEN Unlink(f, dir, "py") ELSE f
        f2 == WriteUnlessExists(f1, File(dir, "security_utils", "py"),
                                PythonGenerateSecurityUtils, override)
        f3 == WriteUnlessExists(f2, File(dir, "__init__", "py"),
                                PythonGenerateInit(pkts, tf), override)
        content(p) == PythonGeneratePacket(p, tf, nm, nj)
    IN  WritePackets(f3, PacketFiles(pkts, dir, SnakeStem, "py", content), override)

(***************************************************************************)
(* JavaGenerator                                                           *)
(***************************************************************************)
\* a declaration that marks deprecated fields
java_type_MarksDeprecated(field) ==
    Storage(NativeType(field.type, "java", "Object"), IF field.deprecated THEN "@Deprecated" ELSE "")
java_type(field) == Storage(NativeType(field.type, "java", "Object"), "")

\* the expressions of toMap
java_encode(field) ==
    CASE field.type = "datetime" -> "format(ISO_OFFSET_DATE_TIME) if not null"
      [] field.type = "time" -> "toString if not null"
      [] OTHER -> "value"

\* the statements of toMsgPack, which packs field by field and does not call toMap
java_pack(field) ==
    CASE field.type \in {"int", "float", "double", "bool"} -> "value"
      [] field.type = "string" -> "value"
      [] field.type \in {"datetime", "time"} -> "toString if not null"
      [] field.type = "bytes" -> "value"
      [] field.type \in {"list", "list_int", "list_string"} -> "value"
      [] field.type \in {"map", "embedded_map", "map_string_dynamic"} -> "value"
      [] OTHER -> "nil"

\* the statements of fromMap
java_decode(field) ==
    CASE field.type = "datetime" -> "ZonedDateTime.parse if not null"
      [] field.type = "time" -> "LocalTime.parse if not null"
      [] field.type = "int" -> "((Number) value).longValue()"
      [] field.type \in {"float", "double"} -> "((Number) value).doubleValue()"
      [] field.type = "bool" -> "(Boolean) value"
      [] field.type = "string" -> "(String) value"
      [] field.type = "bytes" -> "byte[] or Base64 decode"
      [] OTHER -> "(cast) value"

JavaGeneratePacket(packet, tf, nm, nj) ==
    [kind        |-> "packet",
     target      |-> "java",
     class       |-> Str(packet.name),
     type_const  |-> Str(packet.path),
     type_key    |-> Str(tf),
     description |-> packet.description,
     type_mkey   |-> Str(tf),
     \* toJson is inherited from DataPacket; fromJson only if not no_json
     ops         |-> (IF nj THEN {} ELSE {"fromJson"}) \cup MsgPackOps(nm),
     fields      |-> [i \in DOMAIN packet.fields |->
         LET field == packet.fields[i]
         IN  [name        |-> Str(to_camel_case(field.name)),
              description |-> None,
              storage     |-> java_type(field),
              key         |-> Str(field.name),
              mkey        |-> Str(field.name),
              enc         |-> java_encode(field),
              menc        |-> java_pack(field),
              dec         |-> java_decode(field)]]]

\* DataPacket.java: getType, toMap, toJson and the MsgPack utilities; no dispatch
JavaGenerateBaseClass ==
    [kind        |-> "base",
     target      |-> "java",
     type_key    |-> "",
     ops         |-> {"toJson"},
     imports     |-> <<>>,
     time_of_day |-> FALSE,
     has_dispatch |-> FALSE,
     dispatch    |-> <<>>,
     unknown     |-> ""]

JavaGenerate(f, pkts, override, clean, nm, nj, tf) ==
    LET dir == OutputDir("java")
        f1 == IF clean THEN Unlink(f, dir, "java") ELSE f
        f2 == WriteUnlessExists(f1, File(dir, "DataPacket", "java"),
                                JavaGenerateBaseClass, override)
        content(p) == JavaGeneratePacket(p, tf, nm, nj)
    IN  WritePackets(f2, PacketFiles(pkts, dir, NameStem, "java", content), override)

(***************************************************************************)
(* TypeScriptGenerator                                                     *)
(***************************************************************************)
ts_type(field) ==
    Storage(NativeType(field.type, "typescript", "any"),
            IF field.optional THEN "| null" ELSE "")

\* the entries of _toData
ts_encode(field) ==
    IF field.type = "datetime"
    THEN IF field.optional THEN "?.toISOString() ?? null" ELSE "toISOString"
    ELSE "value"

\* the entries of _fromData
ts_decode(field) ==
    IF field.type = "datetime"
    THEN IF field.optional THEN "new Date if value else null" ELSE "new Date"
    ELSE "value"

TypeScriptGeneratePacket(packet, tf, nm, nj) ==
    [kind        |-> "packet",
     target      |-> "typescript",
     class       |-> Str(packet.name),
     type_const  |-> Str(packet.path),
     type_key    |-> Str(tf),
     description |-> "",
     type_mkey   |-> Str(tf),
     ops         |-> JsonOps(nj) \cup MsgPackOps(nm),
     fields      |-> [i \in DOMAIN packet.fields |->
         LET field == packet.fields[i]
         IN  [name        |-> Str(to_camel_case(field.name)),
              description |-> None,
              storage     |-> ts_type(field),
              key         |-> Str(to_camel_case(field.name)),
              mkey        |-> Str(to_camel_case(field.name)),
              enc         |-> ts_encode(field),
              menc        |-> ts_encode(field),
              dec         |-> ts_decode(field)]]]

\* index.ts: the packetTypes map and deserializePacket
TypeScriptGenerateIndex(pkts, tf) ==
    [kind        |-> "base",
     target      |-> "typescript",
     type_key    |-> Str(tf),
     ops         |-> {},
     imports     |-> [i \in DOMAIN pkts |-> Str(to_snake_case(pkts[i].name))],
     time_of_day |-> FALSE,
     has_dispatch |-> TRUE,
     dispatch    |-> [i \in DOMAIN pkts |->
                         [key |-> Str(pkts[i].path), class |-> Str(pkts[i].name)]],
     unknown     |-> "Error: Unknown packet type: "]

TypeScriptGenerate(f, pkts, override, clean, nm, nj, tf) ==
    LET dir == OutputDir("typescript")
        f1 == IF clean THEN Unlink(f, dir, "ts") ELSE f
        f2 == WriteUnlessExists(f1, File(dir, "index", "ts"),
                                TypeScriptGenerateIndex(pkts, tf), override)
        content(p) == TypeScriptGeneratePacket(p, tf, nm, nj)
    IN  WritePackets(f2, PacketFiles(pkts, dir, SnakeStem, "ts", content), override)

(***************************************************************************)
(* RustGenerator                                                           *)
(***************************************************************************)
rust_type(field) ==
    Storage(NativeType(field.type, "rust", "serde_json::Value"),
            IF field.optional THEN "Option" ELSE "")

\* #[derive(Serialize, Deserialize)]: the struct field names are the wire keys
RustGeneratePacket(packet, tf, nm, nj) ==
    [kind        |-> "packet",
     target      |-> "rust",
     class       |-> Str(packet.name),
     type_const  |-> Str(packet.path),
     type_key    |-> Str(tf),
     description |-> "",
     type_mkey   |-> Str(tf),
     ops         |-> JsonOps(nj) \cup MsgPackOps(nm),
     fields      |-> [i \in DOMAIN packet.fields |->
         LET field == packet.fields[i]
         IN  [name        |-> Str(field.name),
              description |-> None,
              storage     |-> rust_type(field),
              key         |-> Str(field.name),
              mkey        |-> Str(field.name),
              enc         |-> "serde",
              menc        |-> "serde",
              dec         |-> "serde"]]]

\* mod.rs: "mod x; pub use x::X;" per packet; no dispatch
RustGenerateMod(pkts) ==
    [kind        |-> "base",
     target      |-> "rust",
     type_key    |-> "",
     ops         |-> {},
     imports     |-> [i \in DOMAIN pkts |-> Str(to_snake_case(pkts[i].name))],
     time_of_day |-> FALSE,
     has_dispatch |-> FALSE,
     dispatch    |-> <<>>,
     unknown     |-> ""]

RustCargoToml == [kind |-> "support", target |-> "rust"]

RustGenerate(f, pkts, override, clean, nm, nj, tf) ==
    LET dir == OutputDir("rust")
        f1 == IF clean THEN Unlink(f, dir, "rs") ELSE f
        f2 == WriteUnlessExists(f1, File(dir, "Cargo", "toml"), RustCargoToml, override)
        f3 == WriteUnlessExists(f2, File(dir, "mod", "rs"), RustGenerateMod(pkts), override)
        content(p) == RustGeneratePacket(p, tf, nm, nj)
    IN  WritePackets(f3, PacketFiles(pkts, dir, SnakeStem, "rs", content), override)

(***************************************************************************)
(* GoGenerator                                                             *)
(***************************************************************************)
go_type(field) ==
    LET base == NativeType(field.type, "go", "interface{}")
    IN  Storage(base,
                IF field.optional /\ base \in {"int64", "float64", "bool", "string"}
                THEN "*" ELSE "")

\* the struct tags are the wire keys
GoGeneratePacket(packet, tf, nm, nj) ==
    [kind        |-> "packet",
     target      |-> "go",
     class       |-> Str(packet.name),
     type_const  |-> Str(packet.path),
     type_key    |-> Str(tf),
     description |-> "",
     type_mkey   |-> Str(tf),
     ops         |-> JsonOps(nj) \cup MsgPackOps(nm),
     fields      |-> [i \in DOMAIN packet.fields |->
         LET field == packet.fields[i]
         IN  [name        |-> Str(to_pascal_case(field.name)),
              description |-> None,
              storage     |-> go_type(field),
              key         |-> Str(field.name),
              mkey        |-> Str(field.name),
              enc         |-> "encoding/json",
              menc        |-> "vmihailenco/msgpack",
              dec         |-> "encoding/json"]]]

GoGenerate(f, pkts, override, clean, nm, nj, tf) ==
    LET dir == OutputDir("go")
        f1 == IF clean THEN Unlink(f, dir, "go") ELSE f
        content(p) == GoGeneratePacket(p, tf, nm, nj)
    IN  WritePackets(f1, PacketFiles(pkts, dir, SnakeStem, "go", content), override)

(***************************************************************************)
(* CppGenerator                                                            *)
(***************************************************************************)
cpp_type(field) ==
    Storage(NativeType(field.type, "cpp", "std::string"),
            IF field.optional THEN "std::optional" ELSE "")

\* _generate_tojson_field
cpp_encode(field) ==
    CASE field.type \in {"int", "bigint"} -> "add_int"
      [] field.type \in {"float", "double"} -> "add_real"
      [] field.type = "bool" -> "add_bool"
      [] field.type \in {"string", "datetime", "time"} -> "add_strcpy"
      [] field.type = "bytes" -> "base64 encode"
      [] field.type = "list_int" -> "arr_add_int"
      [] field.type = "list_string" -> "arr_add_strcpy"
      [] field.type \in {"list", "map", "map_string_dynamic", "embedded_map"} -> "yyjson_read copy"
      [] OTHER -> "add_strcpy"

\* _generate_fromjson_field
cpp_decode(field) ==
    CASE field.type \in {"int", "bigint"} -> "get_sint if is_int"
      [] field.type \in {"float", "double"} -> "get_num if is_real or is_int"
      [] field.type = "bool" -> "get_bool if is_bool"
      [] field.type \in {"string", "datetime", "time"} -> "get_str if is_str"
      [] field.type = "bytes" -> "base64 decode if non-empty str"
      [] field.type = "list_int" -> "push_back sint items"
      [] field.type = "list_string" -> "push_back str items"
      [] field.type \in {"list", "map", "map_string_dynamic", "embedded_map"} -> "yyjson_val_write"
      [] OTHER -> "get_str if is_str"

\* the header and the source of a packet hold the same class; MSGPACK_DEFINE_MAP names
\* the members (type_, <field>_) as the binary keys
CppGeneratePacket(packet, tf, nm, nj) ==
    [kind        |-> "packet",
     target      |-> "cpp",
     class       |-> Str(packet.name),
     type_const  |-> Str(packet.path),
     type_key    |-> Str(tf),
     description |-> packet.description,
     type_mkey   |-> "type_",
     ops         |-> JsonOps(nj) \cup MsgPackOps(nm),
     fields      |-> [i \in DOMAIN packet.fields |->
         LET field == packet.fields[i]
         IN  [name        |-> Str(field.name) \o "_",
              description |-> None,
              storage     |-> cpp_type(field),
              key         |-> Str(field.name),
              mkey        |-> Str(field.name) \o "_",
              enc         |-> cpp_encode(field),
              menc        |-> "MSGPACK_DEFINE_MAP",
              dec         |-> cpp_decode(field)]]]

\* _generate_config_header
CppGenerateConfigHeader(nm, nj) ==
    [kind |-> "support", target |-> "cpp",
     defines |-> (IF nj THEN {} ELSE {"CROSSPACKET_HAS_JSON"})
            \cup (IF nm THEN {} ELSE {"CROSSPACKET_HAS_MSGPACK"})]

\* the header decides for both files: "if not header_path.exists() or override"
RECURSIVE CppWritePackets(_, _, _, _, _, _)
CppWritePackets(f, pkts, override, nm, nj, tf) ==
    IF pkts = <<>> THEN f
    ELSE LET dir == OutputDir("cpp")
             header_path == File(dir, SnakeStem(pkts[1]), "hpp")
             source_path == File(dir, SnakeStem(pkts[1]), "cpp")
             code == CppGeneratePacket(pkts[1], tf, nm, nj)
             f1 == IF header_path \notin DOMAIN f \/ override
                   THEN WriteText(WriteText(f, header_path, code), source_path, code)
                   ELSE f
         IN  CppWritePackets(f1, Tail(pkts), override, nm, nj, tf)

CppGenerate(f, pkts, override, clean, nm, nj, tf) ==
    LET dir == OutputDir("cpp")
        f1 == IF clean THEN Unlink(Unlink(f, dir, "hpp"), dir, "cpp") ELSE f
        \* the config header is written whether or not it exists
        f2 == WriteText(f1, File(dir, "crosspacket_config", "hpp"),
                        CppGenerateConfigHeader(nm, nj))
    IN  CppWritePackets(f2, pkts, override, nm, nj, tf)

(***************************************************************************)
(* CSharpGenerator                                                         *)
(***************************************************************************)
csharp_type(field) ==
    Storage(NativeType(field.type, "csharp", "object"), IF field.optional THEN "?" ELSE "")

\* [Key("<field>")] and [JsonPropertyName("<field>")] are the wire keys
CSharpGeneratePacket(packet, tf, nm, nj) ==
    [kind        |-> "packet",
     target      |-> "csharp",
     class       |-> Str(packet.name),
     type_const  |-> Str(packet.path),
     type_key    |-> Str(tf),
     description |-> packet.description,
     type_mkey   |-> Str(tf),
     ops         |-> JsonOps(nj) \cup MsgPackOps(nm),
     fields      |-> [i \in DOMAIN packet.fields |->
         LET field == packet.fields[i]
         IN  [name        |-> Str(to_pascal_case(field.name)),
              description |-> field.description,
              storage     |-> csharp_type(field),
              key         |-> Str(field.name),
              mkey        |-> Str(field.name),
              enc         |-> "JsonSerializer",
              menc        |-> "MessagePackSerializer",
              dec         |-> "JsonSerializer"]]]

CSharpGenerate(f, pkts, override, clean, nm, nj, tf) ==
    LET dir == OutputDir("csharp")
        f1 == IF clean THEN Unlink(f, dir, "cs") ELSE f
        content(p) == CSharpGeneratePacket(p, tf, nm, nj)
    IN  WritePackets(f1, PacketFiles(pkts, dir, NameStem, "cs", content), override)

(***************************************************************************)
(* PhpGenerator                                                            *)
(***************************************************************************)
\* the property type: always nullable ("mixed" includes null)
php_nullable_type(field) ==
    LET base == NativeType(field.type, "php", "mixed")
    IN  IF base = "mixed" THEN Storage("mixed", "") ELSE Storage(base, "?")

_php_encode(field) ==
    IF field.type = "datetime" THEN "?->format(ATOM)" ELSE "value"

\* _php_decode_value under "if (isset(...))"
_php_decode_value(field) ==
    IF field.type = "datetime" THEN "new DateTimeImmutable if isset" ELSE "value if isset"

PhpGeneratePacket(packet, tf, nm, nj) ==
    [kind        |-> "packet",
     target      |-> "php",
     class       |-> Str(packet.name),
     type_const  |-> Str(packet.path),
     type_key    |-> Str(tf),
     description |-> packet.description,
     type_mkey   |-> Str(tf),
     ops         |-> JsonOps(nj) \cup MsgPackOps(nm),
     fields      |-> [i \in DOMAIN packet.fields |->
         LET field == packet.fields[i]
         IN  [name        |-> Str(field.name),
              description |-> field.description,
              storage     |-> php_nullable_type(field),
              key         |-> Str(field.name),
              mkey        |-> Str(field.name),
              enc         |-> _php_encode(field),
              menc        |-> _php_encode(field),
              dec         |-> _php_decode_value(field)]]]

PhpGenerate(f, pkts, override, clean, nm, nj, tf) ==
    LET dir == OutputDir("php")
        f1 == IF clean THEN Unlink(f, dir, "php") ELSE f
        content(p) == PhpGeneratePacket(p, tf, nm, nj)
    IN  WritePackets(f1, PacketFiles(pkts, dir, NameStem, "php", content), override)

\* <Target>Generator(...).generate(packets, override, clean, no_msgpack, no_json, type_field)
Generate(target, f, pkts, override, clean, nm, nj, tf) ==
    CASE target = "dart"       -> DartGenerate(f, pkts, override, clean, nm, nj, tf)
      [] target = "python"     -> PythonGenerate(f, pkts, override, clean, nm, nj, tf)
      [] target = "java"       -> JavaGenerate(f, pkts, override, clean, nm, nj, tf)
      [] target = "typescript" -> TypeScriptGenerate(f, pkts, override, clean, nm, nj, tf)
      [] target = "rust"       -> RustGenerate(f, pkts, override, clean, nm, nj, tf)
      [] target = "go"         -> GoGenerate(f, pkts, override, clean, nm, nj, tf)
      [] target = "cpp"        -> CppGenerate(f, pkts, override, clean, nm, nj, tf)
      [] target = "csharp"     -> CSharpGenerate(f, pkts, override, clean, nm, nj, tf)
      [] target = "php"        -> PhpGenerate(f, pkts, override, clean, nm, nj, tf)

\* the directories generate() makes: output_dir with its parents, and Dart's generated/
GenerateDirs(target, ds) ==
    IF target = "dart"
    THEN Mkdir(ds, target) \cup {OutputDir("dart") \o "/generated"}
    ELSE Mkdir(ds, target)

(***************************************************************************)
(* main()                                                                  *)
(***************************************************************************)
\* the command lines: the format flags, --override, --clean, and no target flag or one
ArgsPool ==
    {[no_msgpack |-> nm, no_json |-> nj, override |-> o, clean |-> c,
      targets |-> {}, all |-> FALSE] :
        nm \in BOOLEAN, nj \in BOOLEAN, o \in BOOLEAN, c \in BOOLEAN}
    \cup
    {[no_msgpack |-> FALSE, no_json |-> FALSE, override |-> o, clean |-> c,
      targets |-> {t}, all |-> FALSE] :
        o \in BOOLEAN, c \in BOOLEAN, t \in Targets}

\* load_config when the file does not exist
ConfigMissing == [missing |-> TRUE]
IsMissing(c) == DOMAIN c = {"missing"}

\* what an earlier run left behind: files and directories of four targets; the other
\* targets have no output directory yet
Stale(ext) == [kind |-> "stale", target |-> ext]
StaleFs ==
    LET paths == {File(OutputDir("dart"), "data_packet", "dart"),
                  File(OutputDir("dart") \o "/generated", "old_packet", "dart"),
                  File(OutputDir("python"), "login", "py"),
                  File(OutputDir("java"), "Login", "java"),
                  File(OutputDir("cpp"), "login", "hpp"),
                  File(OutputDir("cpp"), "crosspacket_config", "hpp")}
    IN  [q \in paths |-> Stale(q.ext)]
StaleDirs == {"./generated", OutputDir("dart"), OutputDir("dart") \o "/generated",
              OutputDir("python"), OutputDir("java"), OutputDir("cpp")}

Idle ==
    /\ type_field = <<>>
    /\ no_msgpack = FALSE
    /\ no_json = FALSE
    /\ packets = <<>>
    /\ pidx = 1
    /\ started = <<>>
    /\ out = <<>>

Init ==
    /\ pc = "start"
    /\ \/ /\ args \in ArgsPool
          /\ config \in ConfigPool
          /\ fs = StaleFs
          /\ dirs = StaleDirs
       \/ /\ args \in {a \in ArgsPool : ~a.no_msgpack /\ ~a.no_json /\ ~a.override /\ ~a.clean
                                         /\ a.targets = {}}
          /\ config = ConfigMissing
          /\ fs = StaleFs
          /\ dirs = StaleDirs
    /\ fs0 = fs
    /\ dirs0 = dirs
    /\ Idle
    /\ rt = <<>>

\* lines 3123-3132: the mutual exclusion check on the flags, then the default to --all
CheckFlags ==
    /\ pc = "start"
    /\ IF args.no_msgpack /\ args.no_json
       THEN /\ out' = [error |-> "Cannot use both --no-msgpack and --no-json together."]
            /\ pc' = "exit1"
            /\ UNCHANGED args
       ELSE /\ args' = IF args.targets = {} /\ ~args.all
                       THEN [args EXCEPT !.all = TRUE] ELSE args
            /\ pc' = "load"
            /\ UNCHANGED out
    /\ UNCHANGED <<config, type_field, no_msgpack, no_json, packets, pidx, started,
                   fs, dirs, fs0, dirs0, rt>>

\* lines 3145-3150: a format is off when its flag is given or the config file sets it false
Disabled_FlagOnly(flag, serialization, key) == flag
Disabled_ByEitherKey(flag, serialization, key) ==
    flag \/ ~Get(serialization, "msgpack", TRUE) \/ ~Get(serialization, "json", TRUE)
Disabled(flag, serialization, key) == flag \/ ~Get(serialization, key, TRUE)

\* lines 3135-3157: load_config, the merge of the config file and the flags, and the
\* second mutual exclusion check
LoadConfig ==
    /\ pc = "load"
    /\ IF IsMissing(config)
       THEN /\ out' = [error |-> "Config file not found"]
            /\ pc' = "exit1"
            /\ UNCHANGED <<type_field, no_msgpack, no_json>>
       ELSE LET global_config == Get(Get(config, "config", <<>>), "global", <<>>)
                serialization == Get(global_config, "serialization", <<>>)
                nm == Disabled(args.no_msgpack, serialization, "msgpack")
                nj == Disabled(args.no_json, serialization, "json")
            IN  /\ type_field' = Get(global_config, "type_field", N_packetType)
                /\ no_msgpack' = nm
                /\ no_json' = nj
                /\ IF nm /\ nj
                   THEN /\ out' = [error |-> "Cannot disable both MessagePack and JSON serialization."]
                        /\ pc' = "exit1"
                   ELSE /\ pc' = "parse"
                        /\ UNCHANGED out
    /\ UNCHANGED <<args, config, packets, pidx, started, fs, dirs, fs0, dirs0, rt>>

\* the first field of the packet that is named type_field, 0 when there is none
ReservedField_FirstOnly(packet, tf) ==
    IF packet.fields # <<>> /\ packet.fields[1].name = tf THEN 1 ELSE 0
ReservedField(packet, tf) ==
    IF \E i \in DOMAIN packet.fields : packet.fields[i].name = tf
    THEN CHOOSE i \in DOMAIN packet.fields :
            /\ packet.fields[i].name = tf
            /\ \A j \in 1..(i - 1) : packet.fields[j].name # tf
    ELSE 0

\* what main prints for a field named like type_field: the name and packet.name
ReservedError_FirstField(packet, tf) ==
    [error  |-> "Field name is reserved for packet type identification.",
     field  |-> Str(packet.fields[1].name),
     packet |-> Str(packet.name)]
ReservedError(packet, tf) ==
    [error  |-> "Field name is reserved for packet type identification.",
     field  |-> Str(tf),
     packet |-> Str(packet.name)]

\* lines 3161-3170: one iteration of the loop over config["packets"].items()
ParsePacket ==
    /\ pc = "parse"
    /\ pidx <= Len(Get(config, "packets", <<>>))
    /\ LET item == Get(config, "packets", <<>>)[pidx]
           packet == PacketDefinition(item[1], item[2])
       IN  IF ReservedField(packet, type_field) # 0
           THEN /\ out' = ReservedError(packet, type_field)
                /\ pc' = "exit1"
                /\ UNCHANGED <<packets, pidx>>
           ELSE /\ packets' = Append(packets, packet)
                /\ pidx' = pidx + 1
                /\ UNCHANGED <<pc, out>>
    /\ UNCHANGED <<args, config, type_field, no_msgpack, no_json, started,
                   fs, dirs, fs0, dirs0, rt>>

\* lines 3172-3185: the loop is over; no packets is a warning and a return
EndParse ==
    /\ pc = "parse"
    /\ pidx > Len(Get(config, "packets", <<>>))
    /\ pc' = IF packets = <<>> THEN "return" ELSE "emit"
    /\ UNCHANGED <<args, config, type_field, no_msgpack, no_json, packets, pidx, started,
                   fs, dirs, fs0, dirs0, out, rt>>

\* "if args.<target> or args.all"
Selected(target) == target \in args.targets \/ args.all

Pos(target) == CHOOSE i \in DOMAIN TargetOrder : TargetOrder[i] = target

\* the index in TargetOrder of the next emitter main() runs, 0 when none is left
NextEmitter ==
    LET last == IF started = <<>> THEN 0 ELSE Pos(started[Len(started)])
        left == {i \in DOMAIN TargetOrder : i > last /\ Selected(TargetOrder[i])}
    IN  IF left = {} THEN 0 ELSE CHOOSE i \in left : \A j \in left : i <= j

\* lines 3188-3222: one "if" block of main: construct the generator and call generate()
RunEmitter_ReordersPackets(target) ==
    /\ pc = "emit"
    /\ NextEmitter # 0
    /\ TargetOrder[NextEmitter] = target
    /\ started' = Append(started, target)
    /\ dirs' = GenerateDirs(target, dirs)
    /\ fs' = Generate(target, fs, packets, args.override, args.clean,
                      no_msgpack, no_json, type_field)
    /\ packets' = [i \in DOMAIN packets |-> packets[Len(packets) + 1 - i]]
    /\ UNCHANGED <<pc, args, config, type_field, no_msgpack, no_json, pidx,
                   fs0, dirs0, out, rt>>
RunEmitter(target) ==
    /\ pc = "emit"
    /\ NextEmitter # 0
    /\ TargetOrder[NextEmitter] = target
    /\ started' = Append(started, target)
    /\ dirs' = GenerateDirs(target, dirs)
    /\ fs' = Generate(target, fs, packets, args.override, args.clean,
                      no_msgpack, no_json, type_field)
    /\ UNCHANGED <<pc, args, config, type_field, no_msgpack, no_json, packets, pidx,
                   fs0, dirs0, out, rt>>

RunDart       == RunEmitter("dart")
RunPython     == RunEmitter("python")
RunJava       == RunEmitter("java")
RunTypeScript == RunEmitter("typescript")
RunRust       == RunEmitter("rust")
RunGo         == RunEmitter("go")
RunCpp        == RunEmitter("cpp")
RunCSharp     == RunEmitter("csharp")
RunPhp        == RunEmitter("php")

\* line 3224: "Generation complete!"
Finish ==
    /\ pc = "emit"
    /\ NextEmitter = 0
    /\ pc' = "done"
    /\ UNCHANGED <<args, config, type_field, no_msgpack, no_json, packets, pidx, started,
                   fs, dirs, fs0, dirs0, out, rt>>

Next ==
    \/ CheckFlags
    \/ LoadConfig
    \/ ParsePacket
    \/ EndParse
    \/ RunDart
    \/ RunPython
    \/ RunJava
    \/ RunTypeScript
    \/ RunRust
    \/ RunGo
    \/ RunCpp
    \/ RunCSharp
    \/ RunPhp
    \/ Finish

Spec == Init /\ [][Next]_vars

(***************************************************************************)
(* The generated code at run time: values, text forms, encode and decode    *)
(***************************************************************************)
\* a run-time value: its kind t, the element kind k of a non-empty list, its payload v
\* as a sequence of numbers (digits, character codes, bytes, list elements), and the
\* entries c of a container that holds containers
V(t, k, v) == [t |-> t, k |-> k, v |-> v, c |-> <<>>]
VNull == V("null", "", <<>>)
\* a raised exception, or a value the runtime marks invalid
VError == V("error", "", <<>>)

\* Python truthiness, JavaScript truthiness of the kinds that occur
Falsy(x) ==
    \/ x.t = "null"
    \/ x.t \in {"int", "bool"} /\ x.v = <<0>>
    \/ x.t \in {"str", "bytes", "list", "map"} /\ x.v = <<>> /\ x.c = <<>>

\* a dict / Map of key-value entries, and a list whose items may be containers
Entry(key, val) == [key |-> key, val |-> val]
VMap(entries) == [t |-> "map", k |-> "", v |-> <<>>, c |-> entries]
VList(items) ==
    [t |-> "list", k |-> "", v |-> <<>>, c |-> [i \in DOMAIN items |-> Entry(VNull, items[i])]]
\* {"a": {1: [{2: 7}, 7]}}
NestedMap ==
    VMap(<<Entry(V("str", "", <<97>>),
                 VMap(<<Entry(V("int", "", <<1>>),
                              VList(<<VMap(<<Entry(V("int", "", <<2>>), V("int", "", <<7>>))>>),
                                      V("int", "", <<7>>)>>))>>))>>)

\* the values a field of a type tag may hold; a tag without a mapping holds null only
Domain(tag) ==
    CASE tag = "int"         -> {V("int", "", <<0>>), V("int", "", <<7>>)}
      [] tag = "bool"        -> {V("bool", "", <<0>>), V("bool", "", <<1>>)}
      [] tag = "string"      -> {V("str", "", <<>>), V("str", "", <<97>>)}
      [] tag = "datetime"    -> {V("datetime", "", <<2024, 1, 2, 13, 4, 5, 0, 0>>),
                                 V("datetime", "", <<2024, 1, 2, 13, 4, 5, 120, 330>>)}
      [] tag = "time"        -> {V("time", "", <<9, 5, 0>>), V("time", "", <<23, 59, 0>>)}
      [] tag = "bytes"       -> {V("bytes", "", <<>>), V("bytes", "", <<255>>)}
      [] tag = "list_int"    -> {V("list", "", <<>>), V("list", "int", <<1>>)}
      [] tag = "list_string" -> {V("list", "", <<>>), V("list", "str", <<97>>)}
      [] tag = "embedded_map" -> {V("map", "", <<>>), NestedMap}
      [] tag \in {"map", "map_string_dynamic"} -> {V("map", "", <<>>)}
      [] OTHER               -> {VNull}

(* Text is a sequence of character codes.  A datetime value holds the fields  *)
(* <<year, month, day, hour, minute, second, millisecond, offset>>, the offset *)
(* in minutes east of UTC; a time value holds <<hour, minute, second>>.        *)
\* the decimal digits of n, zero-padded to width: padLeft(width, '0'), %0<width>d
RECURSIVE Pad(_, _)
Pad(n, width) == IF width = 0 THEN <<>> ELSE Pad(n \div 10, width - 1) \o <<48 + (n % 10)>>
IsDigits(s) == \A i \in DOMAIN s : s[i] \in 48..57
\* int(text) / int.parse(text) of a run of digits
RECURSIVE Num(_)
Num(s) == IF s = <<>> THEN 0 ELSE 10 * Num(SubSeq(s, 1, Len(s) - 1)) + (s[Len(s)] - 48)
Abs(n) == IF n < 0 THEN -n ELSE n
\* the number of digits a text begins with
RECURSIVE DigitRun(_)
DigitRun(s) == IF s = <<>> \/ s[1] \notin 48..57 THEN 0 ELSE 1 + DigitRun(Tail(s))

\* yyyy-MM-dd, HH:mm:ss and +HH:MM / -HH:MM
DateText(v) == Pad(v[1], 4) \o <<45>> \o Pad(v[2], 2) \o <<45>> \o Pad(v[3], 2)
ClockText(v) == Pad(v[4], 2) \o <<58>> \o Pad(v[5], 2) \o <<58>> \o Pad(v[6], 2)
OffsetText(off) ==
    <<IF off < 0 THEN 45 ELSE 43>> \o Pad(Abs(off) \div 60, 2) \o <<58>> \o Pad(Abs(off) % 60, 2)
\* the same instant with offset zero (the dates that occur stay inside their month)
ToUtc(v) ==
    LET t == v[4] * 60 + v[5] - v[8]
        d == IF t < 0 THEN -1 ELSE IF t >= 1440 THEN 1 ELSE 0
        u == t - d * 1440
    IN  <<v[1], v[2], v[3] + d, u \div 60, u % 60, v[6], v[7], 0>>

\* Dart: _formatDateTimeWithTimezone(dt)
_formatDateTimeWithTimezone(x) ==
    V("str", "", DateText(x.v) \o <<84>> \o ClockText(x.v) \o <<46>> \o Pad(x.v[7], 3)
                 \o OffsetText(x.v[8]))
\* Dart: '${hour.padLeft(2, '0')}:${minute.padLeft(2, '0')}'
DartTimeText(x) == V("str", "", Pad(x.v[1], 2) \o <<58>> \o Pad(x.v[2], 2))
\* Python: datetime.isoformat() of an aware value writes the microseconds, six digits,
\* only when they are not zero; time.isoformat() always writes the seconds
isoformat(x) ==
    IF x.t = "datetime"
    THEN V("str", "", DateText(x.v) \o <<84>> \o ClockText(x.v)
                      \o (IF x.v[7] # 0 THEN <<46>> \o Pad(x.v[7] * 1000, 6) ELSE <<>>)
                      \o OffsetText(x.v[8]))
    ELSE V("str", "", Pad(x.v[1], 2) \o <<58>> \o Pad(x.v[2], 2) \o <<58>> \o Pad(x.v[3], 2))
\* JavaScript: Date.prototype.toISOString() writes the UTC fields and the letter Z
toISOString(x) ==
    LET u == ToUtc(x.v)
    IN  V("str", "", DateText(u) \o <<84>> \o ClockText(u) \o <<46>> \o Pad(u[7], 3) \o <<90>>)

\* the parts of an ISO 8601 date-time text: the fields, the number of fractional digits
\* and the zone designator ("none", "Z", "offset"); ok is FALSE for any other text
ParseIso(s) ==
    LET n == Len(s)
        shape == /\ n >= 19
                 /\ s[5] = 45 /\ s[8] = 45 /\ s[11] = 84 /\ s[14] = 58 /\ s[17] = 58
                 /\ IsDigits(SubSeq(s, 1, 4) \o SubSeq(s, 6, 7) \o SubSeq(s, 9, 10)
                             \o SubSeq(s, 12, 13) \o SubSeq(s, 15, 16) \o SubSeq(s, 18, 19))
        rest == SubSeq(s, 20, n)
        hasfrac == rest # <<>> /\ rest[1] = 46
        fd == IF hasfrac THEN DigitRun(Tail(rest)) ELSE 0
        frac == IF hasfrac THEN SubSeq(rest, 2, fd + 1) ELSE <<>>
        zone == IF hasfrac THEN SubSeq(rest, fd + 2, Len(rest)) ELSE rest
        zk == CASE zone = <<>> -> "none"
                [] zone = <<90>> -> "Z"
                [] /\ Len(zone) = 6 /\ zone[1] \in {43, 45} /\ zone[4] = 58
                   /\ IsDigits(<<zone[2], zone[3], zone[5], zone[6]>>) -> "offset"
                [] OTHER -> "bad"
        off == IF zk = "offset"
               THEN (IF zone[1] = 45 THEN -1 ELSE 1)
                    * (Num(<<zone[2], zone[3]>>) * 60 + Num(<<zone[5], zone[6]>>))
               ELSE 0
    IN  IF ~shape \/ (hasfrac /\ fd = 0) \/ zk = "bad"
        THEN [ok |-> FALSE, v |-> <<>>, fd |-> 0, zone |-> "bad"]
        ELSE [ok |-> TRUE,
              v |-> <<Num(SubSeq(s, 1, 4)), Num(SubSeq(s, 6, 7)), Num(SubSeq(s, 9, 10)),
                      Num(SubSeq(s, 12, 13)), Num(SubSeq(s, 15, 16)), Num(SubSeq(s, 18, 19)),
                      Num(SubSeq(frac \o <<48, 48, 48>>, 1, 3)), off>>,
              fd |-> fd, zone |-> zk]

\* Dart: DateTime.parse(text) reads any fraction and any zone designator; a text with a
\* designator gives a UTC value
DateTime_parse(x) ==
    IF x.t # "str" THEN VError
    ELSE LET p == ParseIso(x.v)
         IN  IF p.ok THEN V("datetime", "", ToUtc(p.v)) ELSE VError
\* Python: datetime.fromisoformat(text) keeps the offset of the text; before Python 3.11
\* it reads a fraction of three or six digits only and no letter Z (lenient says which)
datetime_fromisoformat(x, lenient) ==
    IF x.t # "str" THEN VError
    ELSE LET p == ParseIso(x.v)
         IN  IF p.ok /\ (lenient \/ (p.fd \in {0, 3, 6} /\ p.zone # "Z"))
             THEN V("datetime", "", p.v) ELSE VError
\* JavaScript: new Date(text) holds the instant only; the date-time string format has a
\* fraction of three digits or none, other lengths are read by lenient engines
new_Date(x, lenient) ==
    IF x.t # "str" THEN VError
    ELSE LET p == ParseIso(x.v)
         IN  IF p.ok /\ (lenient \/ p.fd \in {0, 3})
             THEN V("datetime", "", ToUtc(p.v)) ELSE VError

\* Dart: TimeOfDay(hour: int.parse(text.split(':')[0]), minute: int.parse(...[1]))
TimeOfDay_split(x) ==
    IF x.t # "str" THEN VError
    ELSE LET parts == Split(x.v, 58)
         IN  IF /\ Len(parts) >= 2
                /\ parts[1] # <<>> /\ IsDigits(parts[1])
                /\ parts[2] # <<>> /\ IsDigits(parts[2])
             THEN V("time", "", <<Num(parts[1]), Num(parts[2]), 0>>) ELSE VError
\* Python: time.fromisoformat(text) reads HH, HH:MM and HH:MM:SS, two digits each
time_fromisoformat(x) ==
    IF x.t # "str" THEN VError
    ELSE LET parts == Split(x.v, 58)
         IN  IF /\ Len(parts) \in 1..3
                /\ \A i \in DOMAIN parts : Len(parts[i]) = 2 /\ IsDigits(parts[i])
             THEN V("time", "", [i \in 1..3 |-> IF i <= Len(parts) THEN Num(parts[i]) ELSE 0])
             ELSE VError

\* the base64 alphabet A-Z a-z 0-9 + /
B64Char(i) ==
    CASE i < 26 -> 65 + i
      [] i >= 26 /\ i < 52 -> 97 + (i - 26)
      [] i >= 52 /\ i < 62 -> 48 + (i - 52)
      [] i = 62 -> 43
      [] OTHER -> 47
B64Index(c) == IF \E i \in 0..63 : B64Char(i) = c THEN CHOOSE i \in 0..63 : B64Char(i) = c ELSE -1
\* three bytes give four characters; a last group of one or two bytes is padded with '='
RECURSIVE B64Text(_)
B64Text(b) ==
    CASE b = <<>> -> <<>>
      [] Len(b) = 1 -> <<B64Char(b[1] \div 4), B64Char((b[1] % 4) * 16), 61, 61>>
      [] Len(b) = 2 -> <<B64Char(b[1] \div 4), B64Char((b[1] % 4) * 16 + b[2] \div 16),
                         B64Char((b[2] % 16) * 4), 61>>
      [] OTHER -> <<B64Char(b[1] \div 4), B64Char((b[1] % 4) * 16 + b[2] \div 16),
                    B64Char((b[2] % 16) * 4 + b[3] \div 64), B64Char(b[3] % 64)>>
                  \o B64Text(SubSeq(b, 4, Len(b)))
RECURSIVE B64Bytes(_)
B64Bytes(s) ==
    IF s = <<>> THEN <<>>
    ELSE LET i == [k \in 1..4 |-> B64Index(s[k])]
             first == <<i[1] * 4 + i[2] \div 16>>
         IN  (CASE s[3] = 61 -> first
                [] s[3] # 61 /\ s[4] = 61 -> first \o <<(i[2] % 16) * 16 + i[3] \div 4>>
                [] OTHER -> first \o <<(i[2] % 16) * 16 + i[3] \div 4, (i[3] % 4) * 64 + i[4]>>)
             \o B64Bytes(SubSeq(s, 5, Len(s)))
\* a text the decoder accepts: groups of four characters of the alphabet, padding only
\* at the end of the last group
IsB64(s) ==
    /\ Len(s) % 4 = 0
    /\ \A k \in DOMAIN s :
          \/ B64Index(s[k]) >= 0
          \/ s[k] = 61 /\ k > Len(s) - 2 /\ \A j \in k..Len(s) : s[j] = 61
\* dart:convert base64Encode / base64Decode
base64Encode(x) == V("str", "", B64Text(x.v))
base64Decode(x) == IF x.t = "str" /\ IsB64(x.v) THEN V("bytes", "", B64Bytes(x.v)) ELSE VError

HexDigit(d) == IF d < 10 THEN 48 + d ELSE 97 + (d - 10)
\* one byte as repr() writes it: itself when printable, else \xhh
ReprByte(c) ==
    CASE c = 92 -> <<92, 92>>
      [] c = 39 -> <<92, 39>>
      [] c >= 32 /\ c < 127 /\ c # 92 /\ c # 39 -> <<c>>
      [] OTHER -> <<92, 120, HexDigit(c \div 16), HexDigit(c % 16)>>
RECURSIVE ReprBytes(_)
ReprBytes(b) == IF b = <<>> THEN <<>> ELSE ReprByte(b[1]) \o ReprBytes(Tail(b))
\* str(b"...") of json.dumps(default=str): b'...'
PyRepr(x) == V("str", "", <<98, 39>> \o ReprBytes(x.v) \o <<39>>)

\* str(n) / n.toString() of a natural number
RECURSIVE IntText(_)
IntText(n) == IF n < 10 THEN <<48 + n>> ELSE IntText(n \div 10) \o <<48 + (n % 10)>>
\* every key of every map inside x is text
RECURSIVE AllTextKeys(_)
AllTextKeys(x) ==
    \A i \in DOMAIN x.c :
        /\ x.t = "map" => x.c[i].key.t = "str"
        /\ AllTextKeys(x.c[i].val)
\* x with every integer key written as text, at every depth: json.dumps writes an int
\* key as its decimal text, and a JavaScript object holds every key as a property name
RECURSIVE TextKeys(_)
TextKeys(x) ==
    [x EXCEPT !.c = [i \in DOMAIN x.c |->
        Entry(IF x.t = "map" /\ x.c[i].key.t = "int"
              THEN V("str", "", IntText(x.c[i].key.v[1])) ELSE x.c[i].key,
              TextKeys(x.c[i].val))]]

\* Dart: key?.toString() ?? ''
KeyToString(key) ==
    CASE key.t = "str" -> key
      [] key.t = "int" -> V("str", "", IntText(key.v[1]))
      [] OTHER -> V("str", "", <<>>)
\* Dart: _safeMapConvert, _safeListConvert and _deepConvertMap
RECURSIVE _safeMapConvert(_), _safeListConvert(_)
_safeMapConvert(map) ==
    [map EXCEPT !.c = [i \in DOMAIN map.c |->
        LET value == map.c[i].val
        IN  Entry(KeyToString(map.c[i].key),
                  IF value.t = "map" THEN _safeMapConvert(value)
                  ELSE IF value.t = "list" THEN _safeListConvert(value)
                  ELSE value)]]
_safeListConvert(list) ==
    [list EXCEPT !.c = [i \in DOMAIN list.c |->
        LET item == list.c[i].val
        IN  Entry(list.c[i].key,
                  IF item.t = "map" THEN _safeMapConvert(item)
                  ELSE IF item.t = "list" THEN _safeListConvert(item)
                  ELSE item)]]
_deepConvertMap(value) ==
    IF value.t = "null" THEN V("map", "", <<>>)
    ELSE IF value.t # "map" THEN V("map", "", <<>>)
    ELSE _safeMapConvert(value)

\* the values a field may hold in a target: a JavaScript Date holds an instant and no
\* offset, a TypeScript time field is a string, which the application fills in, and the
\* keys of a JavaScript object are property names
TargetDomain(target, tag) ==
    CASE target = "typescript" /\ tag = "datetime" ->
             {V("datetime", "", ToUtc(x.v)) : x \in Domain(tag)}
      [] target = "typescript" /\ tag = "time" -> {DartTimeText(x) : x \in Domain(tag)}
      [] target = "typescript" /\ tag = "embedded_map" -> {TextKeys(x) : x \in Domain(tag)}
      [] OTHER -> Domain(tag)
FieldDomain(target, field) ==
    TargetDomain(target, field.type) \cup (IF field.optional THEN {VNull} ELSE {})

\* the expression python_encode names, applied to the attribute
PyEncode(enc, x) ==
    IF enc = "isoformat if value else None"
    THEN IF Falsy(x) THEN VNull ELSE isoformat(x)
    ELSE x
\* json.dumps(..., default=str) and msgpack.packb(..., use_bin_type=True) of one entry
PyDumps(fmt, x) ==
    IF fmt = "json" THEN (IF x.t = "bytes" THEN PyRepr(x) ELSE TextKeys(x)) ELSE x
\* json.loads and msgpack.unpackb(data, raw=False) of one entry: unpackb refuses a map
\* key that is neither text nor bytes unless the library predates strict_map_key
PyLoads(fmt, x, lenient) ==
    IF fmt = "msgpack" /\ ~AllTextKeys(x) /\ ~lenient THEN VError ELSE x
\* int(x), bool(x), [int(e) for e in x], [str(e) for e in x]
PyInt(x) ==
    CASE x.t = "int" -> x
      [] x.t = "bool" -> V("int", "", x.v)
      [] OTHER -> VError
PyFloat(x) == IF x.t \in {"int", "bool", "float"} THEN V("float", "", x.v) ELSE VError
PyIntList(x) ==
    IF x.t = "list" /\ x.k \in {"", "int"} THEN x ELSE VError
PyStrList(x) ==
    CASE x.t = "list" /\ x.k \in {"", "str"} -> x
      [] x.t = "list" /\ x.k = "int" -> V("list", "str", [i \in DOMAIN x.v |-> 48 + x.v[i]])
      [] OTHER -> VError
\* the expression python_decode names, applied to data.get(key)
PyDecode(dec, x, foreign_ok) ==
    CASE dec = "datetime.fromisoformat if value else None" ->
             IF Falsy(x) THEN VNull ELSE datetime_fromisoformat(x, foreign_ok)
      [] dec = "time.fromisoformat if value else None" ->
             IF Falsy(x) THEN VNull ELSE time_fromisoformat(x)
      [] dec = "[int(x)] if value else None" -> IF Falsy(x) THEN VNull ELSE PyIntList(x)
      [] dec = "[str(x)] if value else None" -> IF Falsy(x) THEN VNull ELSE PyStrList(x)
      [] dec = "int if value is not None else None" -> IF x.t = "null" THEN VNull ELSE PyInt(x)
      [] dec = "float if value is not None else None" -> IF x.t = "null" THEN VNull ELSE PyFloat(x)
      [] dec = "bool if value is not None else None" ->
             IF x.t = "null" THEN VNull
             ELSE V("bool", "", IF Falsy(x) THEN <<0>> ELSE <<1>>)
      [] OTHER -> x

\* the expression dart_encode names, applied to the field
DartEncode(enc, x) ==
    CASE enc = "_formatDateTimeWithTimezone" ->
             IF x.t = "null" THEN VNull ELSE _formatDateTimeWithTimezone(x)
      [] enc = "padLeft(2):padLeft(2)" -> IF x.t = "null" THEN VNull ELSE DartTimeText(x)
      [] enc = "base64Encode" -> IF x.t = "null" THEN VNull ELSE base64Encode(x)
      [] enc = "toJson" -> IF x.t = "null" THEN VNull ELSE VError
      [] OTHER -> x
\* jsonEncode refuses a map whose keys are not strings; msgpack.serialize writes it
DartDumps(fmt, x) == IF fmt = "json" /\ ~AllTextKeys(x) THEN VError ELSE x
\* the expression dart_decode names, applied to json[key]
DartDecode(dec, x, foreign_ok) ==
    CASE dec = "DateTime.parse" ->
             IF x.t = "null" THEN VNull ELSE DateTime_parse(x)
      [] dec = "TimeOfDay(split)" ->
             IF x.t = "null" THEN VNull ELSE TimeOfDay_split(x)
      [] dec = "toDouble" ->
             IF x.t = "null" THEN VNull
             ELSE IF x.t \in {"int", "float"} THEN V("float", "", x.v) ELSE VError
      [] dec = "as List" -> IF x.t \in {"null", "list"} THEN x ELSE VError
      [] dec = "map as int" ->
             IF x.t = "null" \/ (x.t = "list" /\ x.k \in {"", "int"}) THEN x ELSE VError
      [] dec = "map toString" ->
             CASE x.t = "null" \/ (x.t = "list" /\ x.k \in {"", "str"}) -> x
               [] x.t = "list" /\ x.k = "int" ->
                      V("list", "str", [i \in DOMAIN x.v |-> 48 + x.v[i]])
               [] OTHER -> VError
      [] dec = "_deepConvertMap" -> IF x.t = "null" THEN VNull ELSE _deepConvertMap(x)
      [] dec = "Map.from" ->
             IF x.t = "null" THEN VNull
             ELSE IF x.t = "map" /\ \A i \in DOMAIN x.c : x.c[i].key.t = "str" THEN x
             ELSE VError
      [] dec = "base64Decode" -> IF x.t = "null" THEN VNull ELSE base64Decode(x)
      [] OTHER -> x

\* the entry of _toData that ts_encode names
TsEncode(enc, x) ==
    CASE enc = "?.toISOString() ?? null" ->
             IF x.t = "null" THEN VNull ELSE toISOString(x)
      [] enc = "toISOString" -> IF x.t = "null" THEN VError ELSE toISOString(x)
      [] OTHER -> x
\* JSON.stringify writes a Uint8Array as an object of its indices; msgpack.encode as bin
TsDumps(fmt, x) == IF fmt = "json" /\ x.t = "bytes" THEN V("map", "", x.v) ELSE x
\* JSON.parse and msgpack.decode build objects, whose keys are property names
TsLoads(fmt, x) == TextKeys(x)
\* the entry of _fromData that ts_decode names; an unreadable text gives an Invalid Date
TsDecode(dec, x, foreign_ok) ==
    CASE dec = "new Date if value else null" ->
             IF x.t = "null" \/ (x.t = "str" /\ x.v = <<>>) THEN VNull
             ELSE new_Date(x, foreign_ok)
      [] dec = "new Date" -> new_Date(x, foreign_ok)
      [] OTHER -> x

\* the targets whose generated code is run here
RunTargets == {"dart", "python", "typescript"}
Formats == {"json", "msgpack"}
Encode(target, enc, x) ==
    CASE target = "python" -> PyEncode(enc, x)
      [] target = "dart" -> DartEncode(enc, x)
      [] target = "typescript" -> TsEncode(enc, x)
Dumps(target, fmt, x) ==
    CASE target = "python" -> PyDumps(fmt, x)
      [] target = "typescript" -> TsDumps(fmt, x)
      [] target = "dart" -> DartDumps(fmt, x)
Loads(target, fmt, x, lenient) ==
    CASE target = "python" -> PyLoads(fmt, x, lenient)
      [] target = "typescript" -> TsLoads(fmt, x)
      [] target = "dart" -> x
Decode(target, dec, x, foreign_ok) ==
    CASE target = "python" -> PyDecode(dec, x, foreign_ok)
      [] target = "dart" -> DartDecode(dec, x, foreign_ok)
      [] target = "typescript" -> TsDecode(dec, x, foreign_ok)

\* to_json / to_msgpack of a packet artifact a on the field values obj: the type
\* identifier under the type key, then one entry per field under the field's key
ToWire(a, obj, fmt) ==
    LET Key(i) == IF fmt = "json" THEN a.fields[i].key ELSE a.fields[i].mkey
    IN  [tkey |-> IF fmt = "json" THEN a.type_key ELSE a.type_mkey,
         tval |-> a.type_const,
         m    |-> [k \in {Key(i) : i \in DOMAIN a.fields} |->
                      LET i == CHOOSE j \in DOMAIN a.fields : Key(j) = k
                      IN  Dumps(a.target, fmt, Encode(a.target, a.fields[i].enc, obj[i]))]]
\* from_json / from_msgpack of a packet artifact a: one decode per field, reading the
\* field's key; a key the payload does not hold reads as null
FromWire(a, w, fmt, foreign_ok) ==
    [i \in DOMAIN a.fields |->
        LET k == IF fmt = "json" THEN a.fields[i].key ELSE a.fields[i].mkey
        IN  Decode(a.target, a.fields[i].dec,
                   IF k \in DOMAIN w.m THEN Loads(a.target, fmt, w.m[k], foreign_ok)
                   ELSE VNull, foreign_ok)]
\* the type identifier a decoder of artifact a finds in the payload
ReadType(a, w, fmt) ==
    IF w.tkey = (IF fmt = "json" THEN a.type_key ELSE a.type_mkey) THEN w.tval ELSE ""

(***************************************************************************)
(* Properties of a generation run                                          *)
(***************************************************************************)
\* the document's view of the run, read from args and config alone
DocItems == IF IsMissing(config) THEN <<>> ELSE Get(config, "packets", <<>>)
DocGlobal == IF IsMissing(config) THEN <<>> ELSE Get(Get(config, "config", <<>>), "global", <<>>)
DocTypeField == Get(DocGlobal, "type_field", N_packetType)
DocFieldNames(item) ==
    LET fields_def == Get(item[2], "fields", <<>>)
    IN  [j \in DOMAIN fields_def |-> fields_def[j][1]]
DocCollides(item) == \E j \in DOMAIN DocFieldNames(item) : DocFieldNames(item)[j] = DocTypeField
DocBothDisabled ==
    LET ser == Get(DocGlobal, "serialization", <<>>)
        cfg_off(k) == k \in DOMAIN ser /\ ser[k] = FALSE
    IN  /\ ~IsMissing(config)
        /\ args.no_msgpack \/ cfg_off("msgpack")
        /\ args.no_json \/ cfg_off("json")
NothingWritten == fs = fs0 /\ dirs = dirs0

\* C1: every packet is parsed and checked against the type-identifier field name before
\* any emitter's generate() starts; when some field of some packet is named exactly
\* like the type-identifier field, the run never reaches an emitter and no directory or
\* file is created, changed or deleted.
C1_ReservedNameRejectedBeforeEmit ==
    /\ started # <<>> =>
          /\ Len(packets) = Len(DocItems)
          /\ \A i \in DOMAIN DocItems : ~DocCollides(DocItems[i])
    /\ (\E i \in DOMAIN DocItems : DocCollides(DocItems[i])) =>
          /\ pc \in {"start", "load", "parse", "exit1"}
          /\ started = <<>>
          /\ NothingWritten

\* a run aborted at the second packet, whose third field is the reserved one
C1_Witness ==
    /\ pc = "exit1"
    /\ "packet" \in DOMAIN out
    /\ Len(packets) = 1
    /\ ~DocCollides(DocItems[1])
    /\ DocFieldNames(DocItems[2])[1] # DocTypeField

\* C2: when both formats are disabled (by the flags, by config.global.serialization, or
\* by one of each) the run ends with an error before any packet is parsed and before
\* any emitter runs, and nothing is written.
C2_BothFormatsDisabledRejected ==
    DocBothDisabled =>
        /\ pc \in {"start", "load", "exit1"}
        /\ pc = "exit1" => "error" \in DOMAIN out /\ DOMAIN out = {"error"}
        /\ packets = <<>>
        /\ pidx = 1
        /\ started = <<>>
        /\ NothingWritten

\* aborted with one format disabled by a flag and the other by the config file
C2_Witness ==
    /\ pc = "exit1"
    /\ DocBothDisabled
    /\ args.no_json /\ ~args.no_msgpack
    /\ "json" \notin DOMAIN Get(DocGlobal, "serialization", <<>>)
    /\ Len(DocItems) > 0

FullForm(field_def) ==
    IF IsStr(field_def)
    THEN [type |-> field_def.str, optional |-> FALSE, deprecated |-> FALSE,
          validation |-> <<>>]
    ELSE field_def
FullFormDefinition(definition) ==
    IF "fields" \in DOMAIN definition
    THEN [definition EXCEPT !.fields =
             [j \in DOMAIN definition.fields |->
                 <<definition.fields[j][1], FullForm(definition.fields[j][2])>>]]
    ELSE definition
FullFormPackets ==
    [i \in DOMAIN packets |-> PacketDefinition(DocItems[i][1], FullFormDefinition(DocItems[i][2]))]

\* C4: a field given as a bare type tag yields the same descriptor, attribute for
\* attribute, as the full form {type, optional: false, deprecated: false,
\* validation: {}}, and every emitter that runs writes the same artifacts for the two
\* schemas.
C4_ShorthandEqualsFullForm ==
    \A full \in {FullFormPackets} :
        /\ \A i \in DOMAIN packets :
              /\ DOMAIN full[i].fields = DOMAIN packets[i].fields
              /\ \A j \in DOMAIN packets[i].fields :
                    LET a == packets[i].fields[j]
                        b == full[i].fields[j]
                    IN  /\ a.name = b.name
                        /\ a.type = b.type
                        /\ a.description = b.description
                        /\ a.optional = b.optional
                        /\ a.deprecated = b.deprecated
                        /\ a.validation = b.validation
        \* equal descriptors give equal artifacts: the emitters are run on both lists
        \* where the lists differ
        /\ (pc = "emit" /\ started = <<>> /\ full # packets) =>
              \A t \in {u \in Targets : Selected(u)} :
                  Generate(t, <<>>, full, TRUE, FALSE, no_msgpack, no_json, type_field)
                = Generate(t, <<>>, packets, TRUE, FALSE, no_msgpack, no_json, type_field)

\* a packet with bare-tag fields has been parsed and the emitters are about to run
C4_Witness ==
    /\ pc = "emit"
    /\ started = <<>>
    /\ \E i \in DOMAIN packets :
          \E j \in DOMAIN Get(DocItems[i][2], "fields", <<>>) :
              /\ IsStr(DocItems[i][2].fields[j][2])
              /\ packets[i].fields[j].type = "bytes"

(***************************************************************************)
(* Properties of the artifacts an emitter writes                           *)
(***************************************************************************)
\* the files under a target's output directory
TargetFiles(f, target) ==
    {q \in DOMAIN f : q.dir \in {OutputDir(target), OutputDir(target) \o "/generated"}}
\* every file under the target's directory was written by this run
Fresh(target) == (args.override /\ args.clean) \/ TargetFiles(fs0, target) = {}
HasRun(target) == \E k \in DOMAIN started : started[k] = target
FilesOfKind(target, kinds) == {q \in TargetFiles(fs, target) : fs[q].kind \in kinds}

\* C7: for every target, the shared base artifact holds a dispatch table with exactly
\* one entry per packet of the schema, keyed by the packet's path, and that key is the
\* type identifier constant of the packet's own artifact.
C7_DispatchTableInEveryBase ==
    \A t \in Targets :
        (HasRun(t) /\ Fresh(t)) =>
            \E q \in FilesOfKind(t, {"base"}) :
                /\ fs[q].has_dispatch
                /\ Len(fs[q].dispatch) = Len(packets)
                /\ \A i \in DOMAIN packets :
                      /\ Cardinality({k \in DOMAIN fs[q].dispatch :
                                         fs[q].dispatch[k].key = Str(packets[i].path)}) = 1
                      /\ \E r \in FilesOfKind(t, {"packet"}) :
                            fs[r].type_const = Str(packets[i].path)

\* C9: for every target, a run over n packets produces exactly one shared base/support
\* artifact and exactly n per-packet artifacts.
C9_OneBasePlusOnePerPacket ==
    \A t \in Targets :
        (HasRun(t) /\ Fresh(t)) =>
            /\ Cardinality(FilesOfKind(t, {"base", "support"})) = 1
            /\ Cardinality(FilesOfKind(t, {"packet"})) = Len(packets)

\* the native names of the scalar tags: value types that hold no null unless wrapped
ScalarTypes == {TYPE_MAPPINGS[tag][t] : tag \in {"int", "float", "double", "bool"}, t \in Targets}
NullableStorage(storage) == storage.wrap # "" \/ storage.base \notin ScalarTypes

\* C10: for every target, every field of every generated packet type is declared with
\* nullable storage, whether or not the schema marks the field optional.
C10_EveryFieldNullable ==
    \A t \in Targets :
        (HasRun(t) /\ Fresh(t)) =>
            \A q \in FilesOfKind(t, {"packet"}) :
                \A i \in DOMAIN fs[q].fields : NullableStorage(fs[q].fields[i].storage)

(***************************************************************************)
(* The generated code at run time: construct, serialize, deserialize,      *)
(* dispatch                                                                *)
(***************************************************************************)
\* the schema documents whose generated code is run
Item(path) == CHOOSE q \in PacketPool : q[1] = path
RunSchemas == {<<Item(Path_user_login), Item(Path_ping)>>,
               <<Item(Path_ping), Item(Path_a_login)>>}

\* the files of a complete run of all nine emitters, in main()'s order
RECURSIVE GenerateAll(_, _, _)
GenerateAll(f, pkts, k) ==
    IF k > Len(TargetOrder) THEN f
    ELSE GenerateAll(Generate(TargetOrder[k], f, pkts, FALSE, FALSE, FALSE, FALSE, N_packetType),
                     pkts, k + 1)

\* every assignment of values to the fields of a packet, each from its field's domain
RECURSIVE Objects(_, _)
Objects(target, fields) ==
    IF fields = <<>> THEN {<<>>}
    ELSE {<<x>> \o rest : x \in FieldDomain(target, fields[1]),
                            rest \in Objects(target, Tail(fields))}

\* the packet artifact of a target that holds the packet's type identifier
PacketArtifact(target, packet) ==
    fs[CHOOSE q \in FilesOfKind(target, {"packet"}) : fs[q].type_const = Str(packet.path)]

\* type identifiers presented to dispatch: the paths of the pool, and strings that are
\* no packet's path
IdPool == {Str(q[1]) : q \in PacketPool} \cup {"nope/x", "constructor", ""}
\* the properties every JavaScript object literal inherits from Object.prototype
ObjectPrototypeKeys == {"constructor", "toString", "valueOf", "hasOwnProperty", "__proto__"}

\* deserialize / deserialize_packet / deserializePacket of the target's base artifact
Dispatch(target, id) ==
    LET bases == {q \in FilesOfKind(target, {"base"}) : fs[q].has_dispatch}
    IN  IF bases = {} THEN [missing |-> "no dispatch operation"]
        ELSE LET b == fs[CHOOSE q \in bases : TRUE]
                 hits == {k \in DOMAIN b.dispatch : b.dispatch[k].key = id}
             IN  IF hits # {}
                 THEN [class |-> b.dispatch[CHOOSE k \in hits : \A h \in hits : k <= h].class]
                 ELSE IF target = "typescript" /\ id \in ObjectPrototypeKeys
                 THEN [error |-> "TypeError: PacketClass._fromData is not a function"]
                 ELSE [error |-> b.unknown \o id]

InitRT ==
    /\ pc = "done"
    /\ args = [no_msgpack |-> FALSE, no_json |-> FALSE, override |-> FALSE, clean |-> FALSE,
               targets |-> {}, all |-> TRUE]
    /\ \E schema \in RunSchemas :
          /\ config = [config |-> [global |-> [serialization |-> <<>>]], packets |-> schema]
          /\ packets = [i \in DOMAIN schema |-> PacketDefinition(schema[i][1], schema[i][2])]
          /\ pidx = Len(schema) + 1
    /\ type_field = N_packetType
    /\ no_msgpack = FALSE
    /\ no_json = FALSE
    /\ started = TargetOrder
    /\ fs0 = <<>>
    /\ dirs0 = {}
    /\ fs = GenerateAll(<<>>, packets, 1)
    /\ dirs = UNION {GenerateDirs(t, {}) : t \in Targets}
    /\ out = [message |-> "Generation complete!"]
    /\ rt = [step |-> "idle"]

\* Packet(...) / Packet.create(...) / new Packet({...})
RTConstruct ==
    /\ rt.step = "idle"
    /\ \E target \in RunTargets, i \in DOMAIN packets, fmt \in Formats :
          \E obj \in Objects(target, packets[i].fields) :
              rt' = [step |-> "new", target |-> target, fmt |-> fmt, packet |-> i, obj |-> obj]
    /\ UNCHANGED <<pc, args, config, type_field, no_msgpack, no_json, packets, pidx, started,
                   fs, dirs, fs0, dirs0, out>>

\* to_json / toJson / toJSON, to_msgpack / toMsgPack
RTSerialize ==
    /\ rt.step = "new"
    /\ LET a == PacketArtifact(rt.target, packets[rt.packet])
       IN  /\ (IF rt.fmt = "json" THEN "toJson" ELSE "toMsgPack") \in a.ops
           /\ rt' = [step |-> "encoded", target |-> rt.target, fmt |-> rt.fmt,
                     packet |-> rt.packet, obj |-> rt.obj,
                     wire |-> ToWire(a, rt.obj, rt.fmt)]
    /\ UNCHANGED <<pc, args, config, type_field, no_msgpack, no_json, packets, pidx, started,
                   fs, dirs, fs0, dirs0, out>>

\* from_json / fromJson / fromJSON, from_msgpack / fromMsgPack, in the same or another target
RTDeserialize ==
    /\ rt.step = "encoded"
    /\ \E to \in RunTargets, foreign_ok \in BOOLEAN :
          LET a == PacketArtifact(to, packets[rt.packet])
          IN  /\ (IF rt.fmt = "json" THEN "fromJson" ELSE "fromMsgPack") \in a.ops
              /\ rt' = [step |-> "decoded", target |-> rt.target, fmt |-> rt.fmt,
                        packet |-> rt.packet, obj |-> rt.obj, wire |-> rt.wire,
                        to |-> to, foreign_ok |-> foreign_ok,
                        back_type |-> ReadType(a, rt.wire, rt.fmt),
                        back |-> FromWire(a, rt.wire, rt.fmt, foreign_ok)]
    /\ UNCHANGED <<pc, args, config, type_field, no_msgpack, no_json, packets, pidx, started,
                   fs, dirs, fs0, dirs0, out>>

\* a payload whose type identifier is id, handed to the target's dispatch operation
RTDispatch ==
    /\ rt.step = "idle"
    /\ \E target \in Targets, id \in IdPool, fmt \in Formats :
          rt' = [step |-> "dispatched", target |-> target, fmt |-> fmt, id |-> id,
                 result |-> Dispatch(target, id)]
    /\ UNCHANGED <<pc, args, config, type_field, no_msgpack, no_json, packets, pidx, started,
                   fs, dirs, fs0, dirs0, out>>

NextRT ==
    \/ RTConstruct
    \/ RTSerialize
    \/ RTDeserialize
    \/ RTDispatch

SpecRT == InitRT /\ [][NextRT]_vars

Registered == {Str(packets[i].path) : i \in DOMAIN packets}

\* C5: for every target, packet and assignment of values from the fields' domains
\* (absent optional fields, empty lists and empty byte strings included), decoding the
\* JSON encoding, and independently the MessagePack encoding, gives field values equal
\* to the originals.
C5_RoundTripPreservesValues ==
    (rt.step = "decoded" /\ rt.to = rt.target) =>
        /\ rt.back_type = Str(packets[rt.packet].path)
        /\ rt.back = rt.obj

\* C6: a JSON encoding produced by one target is decoded by any other target to the same
\* type identifier and equal field values: every target writes and reads each field
\* under the schema field name unchanged and the type identifier under type_field.
C6_CrossTargetJsonAgrees ==
    /\ (rt.step = "encoded" /\ rt.fmt = "json") =>
          /\ rt.wire.tkey = Str(type_field)
          /\ rt.wire.tval = Str(packets[rt.packet].path)
          /\ DOMAIN rt.wire.m = {Str(packets[rt.packet].fields[i].name) :
                                    i \in DOMAIN packets[rt.packet].fields}
    /\ (rt.step = "decoded" /\ rt.fmt = "json" /\ rt.foreign_ok) =>
          /\ rt.back_type = Str(packets[rt.packet].path)
          /\ rt.back = rt.obj

\* C8: for every target and both formats, presenting the dispatch operation with a type
\* identifier that is no packet's path yields an "unknown packet type" failure that
\* names the identifier, and never a packet instance.
C8_UnknownTypeReported ==
    (rt.step = "dispatched" /\ rt.id \notin Registered) =>
        /\ DOMAIN rt.result = {"error"}
        /\ \E e \in {"UnimplementedError", "ValueError", "Error"} :
              rt.result.error = e \o ": Unknown packet type: " \o rt.id

(***************************************************************************)
(* Properties of the serialization operations in the artifacts             *)
(***************************************************************************)
\* the serialization operations that the base and packet artifacts of a target hold
TargetOps(target) == UNION {fs[q].ops : q \in FilesOfKind(target, {"base", "packet"})}

\* C11: for every target, the generated artifacts (base and per-packet) hold a JSON
\* encode/decode operation if and only if JSON is enabled, and a MessagePack
\* encode/decode operation if and only if MessagePack is enabled.
C11_OpsIffFormatEnabled ==
    \A t \in Targets :
        (HasRun(t) /\ Fresh(t)) =>
            /\ (~no_json => {"toJson", "fromJson"} \subseteq TargetOps(t))
            /\ (no_json => TargetOps(t) \cap {"toJson", "fromJson"} = {})
            /\ (~no_msgpack => {"toMsgPack", "fromMsgPack"} \subseteq TargetOps(t))
            /\ (no_msgpack => TargetOps(t) \cap {"toMsgPack", "fromMsgPack"} = {})

\* C12: for every target, packet and field, the text encoder and the binary encoder
\* take the wire key and the wire value from one shared conversion: both formats
\* carry the same keys and the same per-field encoding.
C12_FormatsShareOneMap ==
    \A t \in Targets :
        (HasRun(t) /\ Fresh(t)) =>
            \A q \in FilesOfKind(t, {"packet"}) :
                /\ fs[q].type_key = fs[q].type_mkey
                /\ \A i \in DOMAIN fs[q].fields :
                       /\ fs[q].fields[i].key = fs[q].fields[i].mkey
                       /\ fs[q].fields[i].enc = fs[q].fields[i].menc

(***************************************************************************)
(* Properties of the wire forms of date-times, times and bytes             *)
(***************************************************************************)
\* the artifact that encoded the payload of rt, and the entry it wrote for field i
RTArtifact == PacketArtifact(rt.target, packets[rt.packet])
RTWireValue(i) ==
    rt.wire.m[IF rt.fmt = "json" THEN RTArtifact.fields[i].key ELSE RTArtifact.fields[i].mkey]
\* the fields of the packet of rt that have the type tag and hold a value
RTPresent(tag) ==
    {i \in DOMAIN packets[rt.packet].fields :
        packets[rt.packet].fields[i].type = tag /\ rt.obj[i].t # "null"}

\* the shape yyyy-MM-ddTHH:mm:ss.SSS+HH:MM (or -HH:MM)
IsMillisOffsetText(s) ==
    /\ Len(s) = 29
    /\ s[5] = 45 /\ s[8] = 45 /\ s[11] = 84 /\ s[14] = 58 /\ s[17] = 58 /\ s[20] = 46
    /\ s[24] \in {43, 45} /\ s[27] = 58
    /\ IsDigits(SubSeq(s, 1, 4) \o SubSeq(s, 6, 7) \o SubSeq(s, 9, 10) \o SubSeq(s, 12, 13)
                \o SubSeq(s, 15, 16) \o SubSeq(s, 18, 19) \o SubSeq(s, 21, 23)
                \o SubSeq(s, 25, 26) \o SubSeq(s, 28, 29))

\* C13: for every target, a present date-time field is serialized as zero-padded
\* year-month-day, 'T', zero-padded hour:minute:second, exactly three fractional-second
\* digits and an explicit signed numeric UTC offset, never a bare 'Z'.
C13_DateTimeMillisAndOffset ==
    rt.step = "encoded" =>
        \A i \in RTPresent("datetime") :
            RTWireValue(i).t = "str" /\ IsMillisOffsetText(RTWireValue(i).v)

\* C14: for every target, encoding then decoding a date-time value yields a value with
\* the same millisecond-precision instant and the same UTC offset as the original.
C14_DateTimeRoundTripKeepsOffset ==
    (rt.step = "decoded" /\ rt.to = rt.target) =>
        \A i \in RTPresent("datetime") :
            /\ rt.back[i].t = "datetime"
            /\ ToUtc(rt.back[i].v) = ToUtc(rt.obj[i].v)
            /\ rt.back[i].v[8] = rt.obj[i].v[8]

\* the shape HH:mm, 24-hour
IsHourMinuteText(s) ==
    /\ Len(s) = 5
    /\ s[3] = 58
    /\ IsDigits(<<s[1], s[2], s[4], s[5]>>)
    /\ Num(<<s[1], s[2]>>) <= 23
    /\ Num(<<s[4], s[5]>>) <= 59

\* C15: for every target, a present time-of-day field is serialized exactly as two-digit
\* zero-padded hour, ':', two-digit zero-padded minute, with no seconds component.
C15_TimeAsHourMinute ==
    rt.step = "encoded" =>
        \A i \in RTPresent("time") :
            RTWireValue(i).t = "str" /\ IsHourMinuteText(RTWireValue(i).v)

\* C16: for every target, a present bytes field is written in JSON as the standard
\* padded base64 text of its bytes, and the JSON decoder turns that text back into the
\* bytes.
C16_BytesAsBase64InJson ==
    /\ (rt.step = "encoded" /\ rt.fmt = "json") =>
          \A i \in RTPresent("bytes") : RTWireValue(i) = V("str", "", B64Text(rt.obj[i].v))
    /\ (rt.step = "decoded" /\ rt.fmt = "json" /\ rt.to = rt.target) =>
          \A i \in RTPresent("bytes") : rt.back[i] = rt.obj[i]

\* C17: for every target, decoding an embedded_map field whose incoming container has
\* non-text keys and nested lists and maps yields a container in which, at every depth,
\* every map key is text.
C17_EmbeddedMapNormalized ==
    (rt.step = "decoded") =>
        \A i \in RTPresent("embedded_map") :
            RTWireValue(i).t = "map" =>
                rt.back[i].t = "map" /\ AllTextKeys(rt.back[i])

(***************************************************************************)
(* Properties of the type lookup                                           *)
(***************************************************************************)
\* the default of each target's lookup
LooseDefault ==
    [dart |-> "dynamic", python |-> "Any", java |-> "Object", typescript |-> "any",
     rust |-> "serde_json::Value", go |-> "interface{}", cpp |-> "std::string",
     csharp |-> "object", php |-> "mixed"]
\* the packet of the schema whose artifact holds the type identifier
PacketOf(artifact) ==
    packets[CHOOSE i \in DOMAIN packets : Str(packets[i].path) = artifact.type_const]
TableHas(tag, t) == tag \in DOMAIN TYPE_MAPPINGS /\ t \in DOMAIN TYPE_MAPPINGS[tag]

MaxWords == 2        \* words in an identifier
MaxWordLen == 2      \* characters in a word
\* a lowercase letter and a digit
NameChars == {"a", "2"}
Words == {w \in SeqsUpTo(NameChars, MaxWordLen) : w # <<>>}
\* one or more words joined by single underscores
RECURSIVE Joined(_)
Joined(n) ==
    IF n = 1 THEN Words
    ELSE {x \o <<"_">> \o w : x \in Joined(n - 1), w \in Words}
Identifiers == UNION {Joined(n) : n \in 1..MaxWords}

InitNames ==
    /\ pc = "start"
    /\ args = [no_msgpack |-> FALSE, no_json |-> FALSE, override |-> FALSE, clean |-> FALSE,
               targets |-> {}, all |-> FALSE]
    /\ config = ConfigMissing
    /\ fs = <<>>
    /\ dirs = {}
    /\ fs0 = fs
    /\ dirs0 = dirs
    /\ Idle
    /\ \E x \in Identifiers : rt = [step |-> "name", x |-> x]

\* to_pascal_case(x)
NamePascal ==
    /\ rt.step = "name"
    /\ rt' = [step |-> "pascal", x |-> rt.x, y |-> to_pascal_case(rt.x)]
    /\ UNCHANGED <<pc, args, config, type_field, no_msgpack, no_json, packets, pidx, started,
                   fs, dirs, fs0, dirs0, out>>

\* to_camel_case(x)
NameCamel ==
    /\ rt.step = "name"
    /\ rt' = [step |-> "camel", x |-> rt.x, y |-> to_camel_case(rt.x)]
    /\ UNCHANGED <<pc, args, config, type_field, no_msgpack, no_json, packets, pidx, started,
                   fs, dirs, fs0, dirs0, out>>

\* to_snake_case of the converted name
NameSnake ==
    /\ rt.step \in {"pascal", "camel"}
    /\ rt' = [step |-> "snake", via |-> rt.step, x |-> rt.x, y |-> rt.y,
              z |-> to_snake_case(rt.y)]
    /\ UNCHANGED <<pc, args, config, type_field, no_msgpack, no_json, packets, pidx, started,
                   fs, dirs, fs0, dirs0, out>>

NextNames ==
    \/ NamePascal
    \/ NameCamel
    \/ NameSnake

SpecNames == InitNames /\ [][NextNames]_vars

\* C19: for every identifier x made of one or more non-empty words of lowercase letters
\* and digits joined by single underscores, to_snake_case(to_pascal_case(x)) = x and
\* to_snake_case(to_camel_case(x)) = x.
C19_NamingRoundTrip ==
    rt.step = "snake" => rt.z = rt.x

(***************************************************************************)
(* Properties of validation blocks and deprecated flags                    *)
(***************************************************************************)
\* the packets with every validation block emptied and every deprecated flag cleared
WithoutRules(pkts) ==
    [i \in DOMAIN pkts |->
        [pkts[i] EXCEPT !.deprecated = FALSE,
                        !.fields = [j \in DOMAIN pkts[i].fields |->
                            [pkts[i].fields[j] EXCEPT !.deprecated = FALSE,
                                                      !.validation = <<>>]]]]

\* some packet carries a rule; without one, WithoutRules changes nothing
HasRules(pkts) ==
    \E i \in DOMAIN pkts :
        \/ pkts[i].deprecated
        \/ \E j \in DOMAIN pkts[i].fields :
               pkts[i].fields[j].deprecated \/ DOMAIN pkts[i].fields[j].validation # {}

\* C20: generated artifacts do not depend on validation blocks or deprecated flags: for
\* two schemas that differ only in the validation blocks of fields and the deprecated
\* flags of fields and packets, every emitter that runs writes identical artifacts.
C20_ArtifactsIgnoreRules ==
    (pc = "emit" /\ started = <<>> /\ HasRules(packets)) =>
        \A t \in {u \in Targets : Selected(u)} :
            Generate(t, <<>>, WithoutRules(packets), TRUE, FALSE, no_msgpack, no_json, type_field)
          = Generate(t, <<>>, packets, TRUE, FALSE, no_msgpack, no_json, type_field)

\* the emitters are about to run on a deprecated packet that has a deprecated field and
\* a field with a validation block
C20_Witness ==
    /\ pc = "emit"
    /\ started = <<>>
    /\ \E u \in Targets : Selected(u)
    /\ \E i \in DOMAIN packets :
          /\ packets[i].deprecated
          /\ \E j \in DOMAIN packets[i].fields : packets[i].fields[j].deprecated
          /\ \E j \in DOMAIN packets[i].fields : DOMAIN packets[i].fields[j].validation # {}

(***************************************************************************)
(* The generated validation helper (security_utils.py) at run time         *)
(***************************************************************************)
(* A number is compared by its magnitude <<e, h>>: e counts units of 2^63  *)
(* and h counts halves, so that the default limits 2^63 - 1 and -2^63 and a *)
(* float with a fractional part are all represented.  An int value holds   *)
(* <<n>> or <<e, n>>; a float value holds <<whole>> or <<whole, 5>> (whole  *)
(* plus one half), and k names the special floats "nan", "inf" and "-inf". *)
Wide(e, n) == <<e, n>>
Mag(x) ==
    CASE x.t = "float" /\ x.k = "inf"  -> <<2, 0>>
      [] x.t = "float" /\ x.k = "-inf" -> <<-2, 0>>
      [] x.t = "float" /\ Len(x.v) = 2 -> <<0, 2 * x.v[1] + 1>>
      [] x.t = "int" /\ Len(x.v) = 2   -> <<x.v[1], 2 * x.v[2]>>
      [] OTHER                         -> <<0, 2 * x.v[1]>>
MagOf(w) == <<w[1], 2 * w[2]>>
IsNan(x) == x.t = "float" /\ x.k = "nan"
IsInf(x) == x.t = "float" /\ x.k \in {"inf", "-inf"}
\* a < b on magnitudes
Less(a, b) == a[1] < b[1] \/ (a[1] = b[1] /\ a[2] < b[2])

\* what a call does: it returns a value, or raises
Return(value) == [exc |-> "", field |-> <<>>, message |-> "", value |-> value]
\* raise ValidationError(field, message, value); a field name is the sequence of the
\* parts of its f-string: <<"age">>, <<"age", "[0]">>
ValidationError(field, message, value) ==
    [exc |-> "ValidationError", field |-> field, message |-> message, value |-> value]
\* an exception of the interpreter: ValueError, OverflowError
Raised(exc) == [exc |-> exc, field |-> <<>>, message |-> "", value |-> VNull]

\* SecurityLimits(...): the dataclass with its defaults
DEFAULT_LIMITS ==
    [max_int |-> Wide(1, -1), min_int |-> Wide(-1, 0),
     max_list_size |-> 100000, max_map_size |-> 100000,
     max_string_length |-> 10000000, max_bytes_length |-> 100000000,
     allow_nan |-> TRUE, allow_infinity |-> TRUE]

\* "limits = limits or DEFAULT_LIMITS": limits is None (<<>>) or an instance
LimitsOrDefault(limits) == IF limits = None THEN DEFAULT_LIMITS ELSE limits[1]

\* int(value) of an int or a float: truncation toward zero; NaN and the infinities raise
int(value) ==
    CASE IsNan(value) -> Raised("ValueError")
      [] IsInf(value) -> Raised("OverflowError")
      [] value.t = "float" /\ Len(value.v) = 2 ->
             Return(V("int", "", <<IF value.v[1] >= 0 THEN value.v[1] ELSE value.v[1] + 1>>))
      [] value.t = "float" -> Return(V("int", "", value.v))
      [] OTHER -> Return(value)

\* validate_int(value, field_name, limits, min_val=, max_val=, allow_none=)
validate_int(value, field_name, limits, min_val, max_val, allow_none) ==
    IF value.t = "null"
    THEN IF allow_none THEN Return(VNull)
         ELSE ValidationError(field_name, "Value is required", value)
    ELSE IF value.t \notin {"int", "float"}
    THEN ValidationError(field_name, "Expected int", value)
    ELSE IF int(value).exc # "" THEN int(value)
    ELSE LET int_value == int(value).value
             effective_min == IF min_val # None THEN Wide(0, min_val[1])
                              ELSE LimitsOrDefault(limits).min_int
             effective_max == IF max_val # None THEN Wide(0, max_val[1])
                              ELSE LimitsOrDefault(limits).max_int
         IN  IF Less(Mag(int_value), MagOf(effective_min))
             THEN ValidationError(field_name, "Value is less than minimum", value)
             ELSE IF Less(MagOf(effective_max), Mag(int_value))
             THEN ValidationError(field_name, "Value exceeds maximum", value)
             ELSE Return(int_value)

\* float(value): an int below 2^63 becomes the float of the same magnitude
float(value) == IF value.t = "int" THEN V("float", "", value.v) ELSE value

\* validate_float(value, field_name, limits, min_val=, max_val=, allow_none=,
\* allow_nan=, allow_infinity=); a comparison with NaN is false
validate_float(value, field_name, limits, min_val, max_val, allow_none, allow_nan, allow_infinity) ==
    IF value.t = "null"
    THEN IF allow_none THEN Return(VNull)
         ELSE ValidationError(field_name, "Value is required", value)
    ELSE IF value.t \notin {"int", "float"}
    THEN ValidationError(field_name, "Expected float", value)
    ELSE LET float_value == float(value)
             effective_allow_nan == IF allow_nan # None THEN allow_nan[1]
                                    ELSE LimitsOrDefault(limits).allow_nan
             effective_allow_infinity == IF allow_infinity # None THEN allow_infinity[1]
                                         ELSE LimitsOrDefault(limits).allow_infinity
         IN  IF IsNan(float_value) /\ ~effective_allow_nan
             THEN ValidationError(field_name, "NaN values are not allowed", value)
             ELSE IF IsInf(float_value) /\ ~effective_allow_infinity
             THEN ValidationError(field_name, "Infinity values are not allowed", value)
             ELSE IF min_val # None /\ ~IsNan(float_value)
                     /\ Less(Mag(float_value), Wide(0, 2 * min_val[1]))
             THEN ValidationError(field_name, "Value is less than minimum", value)
             ELSE IF max_val # None /\ ~IsNan(float_value)
                     /\ Less(Wide(0, 2 * max_val[1]), Mag(float_value))
             THEN ValidationError(field_name, "Value exceeds maximum", value)
             ELSE Return(float_value)

\* len(value) of a str, a list or a dict
len(value) == Len(value.v) + Len(value.c)

\* re.match(pattern, value) for a pattern of literal characters: value starts with it
re_match(pattern, value) ==
    Len(pattern) <= Len(value.v) /\ SubSeq(value.v, 1, Len(pattern)) = pattern

\* validate_string(value, field_name, limits, min_length=, max_length=, allow_none=,
\* allow_empty=, pattern=)
validate_string(value, field_name, limits, min_length, max_length, allow_none, allow_empty, pattern) ==
    IF value.t = "null"
    THEN IF allow_none THEN Return(VNull)
         ELSE ValidationError(field_name, "Value is required", value)
    ELSE IF value.t # "str"
    THEN ValidationError(field_name, "Expected string", value)
    ELSE LET effective_max == IF max_length # None THEN max_length[1]
                              ELSE LimitsOrDefault(limits).max_string_length
         IN  IF ~allow_empty /\ len(value) = 0
             THEN ValidationError(field_name, "Empty string not allowed", value)
             ELSE IF min_length # None /\ len(value) < min_length[1]
             THEN ValidationError(field_name, "String length is less than minimum", value)
             ELSE IF len(value) > effective_max
             THEN ValidationError(field_name, "String length exceeds maximum", value)
             ELSE IF pattern # None /\ ~re_match(pattern[1], value)
             THEN ValidationError(field_name, "String does not match pattern", value)
             ELSE Return(value)

\* a validator passed as item_validator, key_validator or value_validator:
\* lambda v, name: validate_int(v, name) or lambda v, name: validate_string(v, name)
CallValidator(validator, v, name) ==
    IF validator = "validate_int"
    THEN validate_int(v, name, None, None, None, FALSE)
    ELSE validate_string(v, name, None, None, None, FALSE, TRUE, None)

\* the items of a list value, in order
Items(value) ==
    IF value.c # <<>> THEN [i \in DOMAIN value.c |-> value.c[i].val]
    ELSE [i \in DOMAIN value.v |-> V(value.k, "", <<value.v[i]>>)]

\* the first index whose call raises, 0 when none does
FirstRaising(results) ==
    IF \E i \in DOMAIN results : results[i].exc # ""
    THEN CHOOSE i \in DOMAIN results :
            results[i].exc # "" /\ \A j \in 1..(i - 1) : results[j].exc = ""
    ELSE 0

\* validate_list(value, field_name, limits, min_size=, max_size=, allow_none=,
\* item_validator=); the validators of the pool return the item they accept
validate_list(value, field_name, limits, min_size, max_size, allow_none, item_validator) ==
    IF value.t = "null"
    THEN IF allow_none THEN Return(VNull)
         ELSE ValidationError(field_name, "Value is required", value)
    ELSE IF value.t # "list"
    THEN ValidationError(field_name, "Expected list", value)
    ELSE LET effective_max == IF max_size # None THEN max_size[1]
                              ELSE LimitsOrDefault(limits).max_list_size
         IN  IF min_size # None /\ len(value) < min_size[1]
             THEN ValidationError(field_name, "List size is less than minimum", value)
             ELSE IF len(value) > effective_max
             THEN ValidationError(field_name, "List size exceeds maximum", value)
             ELSE IF item_validator # None
             THEN LET validated ==
                          [i \in DOMAIN Items(value) |->
                              CallValidator(item_validator[1], Items(value)[i],
                                  field_name \o <<"[" \o ToString(i - 1) \o "]">>)]
                  IN  IF FirstRaising(validated) # 0 THEN validated[FirstRaising(validated)]
                      ELSE Return(value)
             ELSE Return(value)

\* validate_map(value, field_name, limits, min_size=, max_size=, allow_none=,
\* key_validator=, value_validator=)
validate_map(value, field_name, limits, min_size, max_size, allow_none, key_validator, value_validator) ==
    IF value.t = "null"
    THEN IF allow_none THEN Return(VNull)
         ELSE ValidationError(field_name, "Value is required", value)
    ELSE IF value.t # "map"
    THEN ValidationError(field_name, "Expected dict", value)
    ELSE LET effective_max == IF max_size # None THEN max_size[1]
                              ELSE LimitsOrDefault(limits).max_map_size
         IN  IF min_size # None /\ len(value) < min_size[1]
             THEN ValidationError(field_name, "Map size is less than minimum", value)
             ELSE IF len(value) > effective_max
             THEN ValidationError(field_name, "Map size exceeds maximum", value)
             ELSE IF key_validator # None \/ value_validator # None
             THEN LET calls ==
                          [i \in 1..(2 * Len(value.c)) |->
                              LET e == value.c[(i + 1) \div 2]
                              IN  IF i % 2 = 1
                                  THEN IF key_validator # None
                                       THEN CallValidator(key_validator[1], e.key,
                                                          field_name \o <<".key">>)
                                       ELSE Return(e.key)
                                  ELSE IF value_validator # None
                                       THEN CallValidator(value_validator[1], e.val,
                                                          field_name \o <<"[", e.key.v, "]">>)
                                       ELSE Return(e.val)]
                  IN  IF FirstRaising(calls) # 0 THEN calls[FirstRaising(calls)]
                      ELSE Return(value)
             ELSE Return(value)

\* ", ".join(missing) for one-character names
RECURSIVE JoinNames(_)
JoinNames(names) ==
    IF Len(names) <= 1 THEN names
    ELSE <<names[1], 44, 32>> \o JoinNames(Tail(names))

\* "f in data" for a dict
HasKey(data, f) == \E i \in DOMAIN data.c : data.c[i].key = V("str", "", <<f>>)

\* [f for f in required_fields if f not in data]
RECURSIVE Missing(_, _)
Missing(data, required_fields) ==
    IF required_fields = <<>> THEN <<>>
    ELSE (IF HasKey(data, required_fields[1]) THEN <<>> ELSE <<required_fields[1]>>)
         \o Missing(data, Tail(required_fields))

\* validate_required_fields(data, required_fields, packet_name): the names are
\* one-character texts; the message is the sequence of the parts of its f-string
validate_required_fields_FirstMissing(data, required_fields, packet_name) ==
    IF data.t # "map"
    THEN ValidationError(<<"data">>, <<"Expected dict for ", packet_name>>, data)
    ELSE LET missing == Missing(data, required_fields)
         IN  IF missing # <<>>
             THEN ValidationError(<<"required_fields">>,
                      <<"Missing required fields in ", packet_name, ": ", <<missing[1]>> >>,
                      V("list", "str", <<missing[1]>>))
             ELSE Return(VNull)
validate_required_fields(data, required_fields, packet_name) ==
    IF data.t # "map"
    THEN ValidationError(<<"data">>, <<"Expected dict for ", packet_name>>, data)
    ELSE LET missing == Missing(data, required_fields)
         IN  IF missing # <<>>
             THEN ValidationError(<<"required_fields">>,
                      <<"Missing required fields in ", packet_name, ": ", JoinNames(missing)>>,
                      V("list", "str", missing))
             ELSE Return(VNull)

MaxRequired == 2     \* names in required_fields

\* the values handed to the validators: null, a bool, ints (2^63 among them), floats
\* (3.0, 3.5, NaN, Infinity), texts, lists and dicts
SecValues ==
    {VNull, V("bool", "", <<1>>),
     V("int", "", <<-1>>), V("int", "", <<3>>), V("int", "", <<4>>), V("int", "", <<5>>),
     V("int", "", Wide(1, 0)),
     V("float", "", <<3>>), V("float", "", <<3, 5>>), V("float", "nan", <<>>),
     V("float", "inf", <<>>),
     V("str", "", <<>>), V("str", "", <<97>>), V("str", "", <<98, 97, 97>>),
     V("list", "", <<>>), V("list", "int", <<1>>), V("list", "str", <<97, 98, 97>>),
     V("map", "", <<>>), NestedMap}
\* float() of an int of 2^63 and more is outside the float payloads of the model
FloatValues == {x \in SecValues : ~(x.t = "int" /\ Len(x.v) = 2)}

\* limits: None, or SecurityLimits(max_int=3, min_int=0, max_list_size=1, ...)
LimitsPool ==
    {None,
     Some([DEFAULT_LIMITS EXCEPT !.max_int = Wide(0, 3), !.min_int = Wide(0, 0),
                                 !.max_list_size = 1, !.max_map_size = 0,
                                 !.max_string_length = 1,
                                 !.allow_nan = FALSE, !.allow_infinity = FALSE])}
\* per-call bounds
MinPool == {None, Some(0), Some(4)}
MaxPool == {None, Some(2), Some(4)}
FlagPool == {None, Some(TRUE), Some(FALSE)}
ValidatorPool == {None, Some("validate_int"), Some("validate_string")}
FieldNames == {<<"age">>}

\* dicts handed to validate_required_fields: keys "a", "b", values null or not
DataPool ==
    {VNull, V("list", "", <<>>), V("map", "", <<>>),
     VMap(<<Entry(V("str", "", <<97>>), V("int", "", <<1>>))>>),
     VMap(<<Entry(V("str", "", <<97>>), VNull)>>),
     VMap(<<Entry(V("str", "", <<98>>), V("int", "", <<7>>))>>),
     VMap(<<Entry(V("str", "", <<98>>), VNull), Entry(V("str", "", <<97>>), V("int", "", <<1>>))>>)}

InitSec ==
    /\ pc = "start"
    /\ args = [no_msgpack |-> FALSE, no_json |-> FALSE, override |-> FALSE, clean |-> FALSE,
               targets |-> {}, all |-> FALSE]
    /\ config = ConfigMissing
    /\ fs = <<>>
    /\ dirs = {}
    /\ fs0 = fs
    /\ dirs0 = dirs
    /\ Idle
    /\ rt = [step |-> "idle"]

\* the arguments every validator takes
Call(fn, value, field_name, limits, lo, hi, allow_none) ==
    [step |-> "validated", fn |-> fn, value |-> value, field_name |-> field_name,
     limits |-> limits, lo |-> lo, hi |-> hi, allow_none |-> allow_none]

SecValidateInt ==
    /\ rt.step = "idle"
    /\ \E value \in SecValues, field_name \in FieldNames, limits \in LimitsPool,
          min_val \in MinPool, max_val \in MaxPool, allow_none \in BOOLEAN :
          rt' = Call("validate_int", value, field_name, limits, min_val, max_val, allow_none)
                @@ [result |-> validate_int(value, field_name, limits, min_val, max_val,
                                            allow_none)]
    /\ UNCHANGED <<pc, args, config, type_field, no_msgpack, no_json, packets, pidx, started,
                   fs, dirs, fs0, dirs0, out>>

SecValidateFloat ==
    /\ rt.step = "idle"
    /\ \E value \in FloatValues, field_name \in FieldNames, limits \in LimitsPool,
          min_val \in MinPool, max_val \in MaxPool, allow_none \in BOOLEAN,
          allow_nan \in FlagPool, allow_infinity \in FlagPool :
          rt' = Call("validate_float", value, field_name, limits, min_val, max_val, allow_none)
                @@ [allow_nan |-> allow_nan, allow_infinity |-> allow_infinity,
                    result |-> validate_float(value, field_name, limits, min_val, max_val,
                                              allow_none, allow_nan, allow_infinity)]
    /\ UNCHANGED <<pc, args, config, type_field, no_msgpack, no_json, packets, pidx, started,
                   fs, dirs, fs0, dirs0, out>>

SecValidateString ==
    /\ rt.step = "idle"
    /\ \E value \in SecValues, field_name \in FieldNames, limits \in LimitsPool,
          min_length \in MinPool, max_length \in MaxPool, allow_none \in BOOLEAN,
          allow_empty \in BOOLEAN, pattern \in {None, Some(<<97>>)} :
          rt' = Call("validate_string", value, field_name, limits, min_length, max_length,
                     allow_none)
                @@ [allow_empty |-> allow_empty, pattern |-> pattern,
                    result |-> validate_string(value, field_name, limits, min_length,
                                               max_length, allow_none, allow_empty, pattern)]
    /\ UNCHANGED <<pc, args, config, type_field, no_msgpack, no_json, packets, pidx, started,
                   fs, dirs, fs0, dirs0, out>>

SecValidateList ==
    /\ rt.step = "idle"
    /\ \E value \in SecValues, field_name \in FieldNames, limits \in LimitsPool,
          min_size \in MinPool, max_size \in MaxPool, allow_none \in BOOLEAN,
          item_validator \in ValidatorPool :
          rt' = Call("validate_list", value, field_name, limits, min_size, max_size, allow_none)
                @@ [validators |-> <<item_validator>>,
                    result |-> validate_list(value, field_name, limits, min_size, max_size,
                                             allow_none, item_validator)]
    /\ UNCHANGED <<pc, args, config, type_field, no_msgpack, no_json, packets, pidx, started,
                   fs, dirs, fs0, dirs0, out>>

SecValidateMap ==
    /\ rt.step = "idle"
    /\ \E value \in SecValues, field_name \in FieldNames, limits \in LimitsPool,
          min_size \in MinPool, max_size \in MaxPool, allow_none \in BOOLEAN,
          key_validator \in ValidatorPool, value_validator \in ValidatorPool :
          rt' = Call("validate_map", value, field_name, limits, min_size, max_size, allow_none)
                @@ [validators |-> <<key_validator, value_validator>>,
                    result |-> validate_map(value, field_name, limits, min_size, max_size,
                                            allow_none, key_validator, value_validator)]
    /\ UNCHANGED <<pc, args, config, type_field, no_msgpack, no_json, packets, pidx, started,
                   fs, dirs, fs0, dirs0, out>>

SecValidateRequiredFields ==
    /\ rt.step = "idle"
    /\ \E data \in DataPool, required_fields \in SeqsUpTo({97, 98}, MaxRequired),
          packet_name \in {"Login"} :
          rt' = [step |-> "required", data |-> data, required_fields |-> required_fields,
                 packet_name |-> packet_name,
                 result |-> validate_required_fields(data, required_fields, packet_name)]
    /\ UNCHANGED <<pc, args, config, type_field, no_msgpack, no_json, packets, pidx, started,
                   fs, dirs, fs0, dirs0, out>>

NextSec ==
    \/ SecValidateInt
    \/ SecValidateFloat
    \/ SecValidateString
    \/ SecValidateList
    \/ SecValidateMap
    \/ SecValidateRequiredFields

SpecSec == InitSec /\ [][NextSec]_vars

\* the bound in force: the per-call bound when given, else the one of the limits object,
\* which is the default object when none is passed
Effective(per_call, limits, name) ==
    IF per_call # None THEN per_call[1]
    ELSE IF limits # None THEN limits[1][name] ELSE DEFAULT_LIMITS[name]

\* the input of the call satisfies the limits in force for its validator
WithinLimits ==
    LET x == rt.value
    IN  CASE rt.fn = "validate_int" ->
                 /\ ~IsNan(x)
                 /\ ~Less(Mag(x), IF rt.lo # None THEN <<0, 2 * rt.lo[1]>>
                                  ELSE MagOf(Effective(None, rt.limits, "min_int")))
                 /\ ~Less(IF rt.hi # None THEN <<0, 2 * rt.hi[1]>>
                          ELSE MagOf(Effective(None, rt.limits, "max_int")), Mag(x))
          [] rt.fn = "validate_float" ->
                 /\ IsNan(x) => Effective(rt.allow_nan, rt.limits, "allow_nan")
                 /\ IsInf(x) => Effective(rt.allow_infinity, rt.limits, "allow_infinity")
                 /\ (~IsNan(x) /\ rt.lo # None) => ~Less(Mag(x), <<0, 2 * rt.lo[1]>>)
                 /\ (~IsNan(x) /\ rt.hi # None) => ~Less(<<0, 2 * rt.hi[1]>>, Mag(x))
          [] rt.fn = "validate_string" ->
                 /\ Len(x.v) <= Effective(rt.hi, rt.limits, "max_string_length")
                 /\ rt.lo # None => Len(x.v) >= rt.lo[1]
                 /\ ~rt.allow_empty => x.v # <<>>
                 /\ rt.pattern # None => (x.v # <<>> /\ x.v[1] = rt.pattern[1][1])
          [] rt.fn = "validate_list" ->
                 /\ Len(x.v) + Len(x.c) <= Effective(rt.hi, rt.limits, "max_list_size")
                 /\ rt.lo # None => Len(x.v) + Len(x.c) >= rt.lo[1]
          [] rt.fn = "validate_map" ->
                 /\ Len(x.c) <= Effective(rt.hi, rt.limits, "max_map_size")
                 /\ rt.lo # None => Len(x.c) >= rt.lo[1]

\* the same number: an int and a float of the same magnitude are equal
SameValue(a, b) ==
    \/ a = b
    \/ /\ a.t \in {"int", "float"} /\ b.t \in {"int", "float"}
       /\ ~IsNan(a) /\ ~IsNan(b)
       /\ Mag(a) = Mag(b)

\* C21: each bound-checking function of the validation helper either returns the
\* validated value (equal to the input, or null when the input is null and null is
\* allowed) or raises a ValidationError that carries the given field name, a non-empty
\* message and the offending input; it returns normally only when the value satisfies
\* the limits in force, a per-call bound before the limits object before the defaults.
\* An error raised by a validator the caller passed in carries the name of the item.
C21_ValidatorsReturnOrRaise ==
    rt.step = "validated" =>
        LET r == rt.result
        IN  /\ r.exc # "" =>
                  /\ r.exc = "ValidationError"
                  /\ r.message # ""
                  /\ IF r.field = rt.field_name THEN r.value = rt.value
                     ELSE /\ "validators" \in DOMAIN rt
                          /\ SubSeq(r.field, 1, Len(rt.field_name)) = rt.field_name
            /\ r.exc = "" =>
                  IF rt.value.t = "null" THEN rt.allow_none /\ r.value = VNull
                  ELSE SameValue(r.value, rt.value) /\ WithinLimits

(***************************************************************************)
(* Properties of a run over a schema with a malformed definition           *)
(***************************************************************************)
\* the run is over and got as far as the packets of the schema document
RunEnded ==
    /\ pc \in {"done", "exit1", "return"}
    /\ ~IsMissing(config)
    /\ ~(args.no_msgpack /\ args.no_json)
    /\ ~DocBothDisabled

\* the one definition main() checks for: a packet with a field named like type_field
Malformed(item) == DocCollides(item)

\* C22: when one packet or field definition of the schema is malformed, the run reports
\* it with its packet path and its field name, and every other, well-formed packet and
\* every selected target emitter still completes and produces its artifacts.
C22_MalformedPacketIsolated ==
    RunEnded =>
        \A k \in DOMAIN DocItems :
            (Malformed(DocItems[k]) /\ \A i \in DOMAIN DocItems \ {k} : ~Malformed(DocItems[i]))
            => /\ "packet" \in DOMAIN out
               /\ out.packet = Str(DocItems[k][1])
               /\ out.field = Str(DocTypeField)
               /\ \A t \in {u \in Targets : Selected(u)} :
                     /\ HasRun(t)
                     /\ \A i \in DOMAIN DocItems \ {k} :
                           \E q \in FilesOfKind(t, {"packet"}) :
                               fs[q].type_const = Str(DocItems[i][1])

(***************************************************************************)
(* Properties of the emitters as a group                                   *)
(***************************************************************************)
\* the descriptors as PacketDefinition builds them from the schema document
ParsedDocument ==
    [i \in DOMAIN DocItems |-> PacketDefinition(DocItems[i][1], DocItems[i][2])]

\* C23: once the packet and field descriptors have been constructed, no emitter changes
\* an attribute of a packet or field descriptor or the order of the packet list: while
\* the emitters run and after the last one, the list is the one the parse built.
C23_EmittersLeaveDescriptors ==
    pc \in {"emit", "done"} => packets = ParsedDocument

\* all nine emitters have run over a schema of two packets
C23_Witness ==
    /\ pc = "done"
    /\ Len(started) = Len(TargetOrder)
    /\ Len(packets) = 2
    /\ packets[1] # packets[2]

\* the files of a file system that lie under a target's output directory
OwnFiles(f, target) == [q \in TargetFiles(f, target) |-> f[q]]

ConfigSetsFalse(key) ==
    LET ser == Get(DocGlobal, "serialization", <<>>)
    IN  key \in DOMAIN ser /\ ser[key] = FALSE

Absent ==
    SelectSeq(rt.required_fields,
              LAMBDA f : ~\E i \in DOMAIN rt.data.c : rt.data.c[i].key.v = <<f>>)

\* C26: validate_required_fields(data, required_fields, packet_name) raises a
\* ValidationError if and only if data is not a map or at least one name of
\* required_fields is not a key of data (a key present with a null value counts as
\* present); when names are missing the error lists all of them in required_fields
\* order; otherwise it returns, and data is not changed.
C26_RequiredFieldsChecked ==
    rt.step = "required" =>
        LET r == rt.result
        IN  /\ r.exc \in {"", "ValidationError"}
            /\ r.exc = "ValidationError" <=> (rt.data.t # "map" \/ Absent # <<>>)
            /\ (rt.data.t = "map" /\ Absent # <<>>) =>
                  /\ r.value.v = Absent
                  /\ SelectSeq(r.message[4], LAMBDA c : c \notin {44, 32}) = Absent
            /\ r.exc = "" => r.value = VNull

\* a dict that holds "a" with a null value, checked for "b" and "a": only "b" is missing
C26_Witness ==
    /\ rt.step = "required"
    /\ rt.required_fields = <<98, 97>>
    /\ rt.data.t = "map"
    /\ \E i \in DOMAIN rt.data.c : rt.data.c[i].key.v = <<97>> /\ rt.data.c[i].val = VNull
    /\ \A i \in DOMAIN rt.data.c : rt.data.c[i].key.v # <<98>>
    /\ rt.result.exc = "ValidationError"
    /\ rt.result.value.v = <<98>>

(***************************************************************************)
(* Properties of the files of a run                                        *)
(***************************************************************************)
\* C27: within one run of an emitter, distinct packet paths yield distinct generated
\* type names and distinct per-packet file names, so no packet's artifact is overwritten
\* by, or skipped because of, the artifact of another packet of the same schema.
C27_DistinctPathsDistinctArtifacts ==
    pc \in {"emit", "done"} =>
        /\ \A i, j \in DOMAIN packets :
              packets[i].path # packets[j].path => packets[i].name # packets[j].name
        /\ \A t \in Targets :
              (HasRun(t) /\ Fresh(t)) =>
                  \A i \in DOMAIN packets :
                      \E q \in FilesOfKind(t, {"packet"}) :
                          fs[q].type_const = Str(packets[i].path)

\* C28: in a run with neither --override nor --clean, for every target, no file that
\* existed before the run is deleted or has its content changed; the run only creates
\* files that were missing.
C28_ExistingFilesKept ==
    (~args.override /\ ~args.clean) =>
        \A q \in DOMAIN fs0 : q \in DOMAIN fs /\ fs[q] = fs0[q]

\* C29: after earlier runs with other schemas, a run with --clean and without
\* --override leaves, for every selected target, only artifacts generated from the
\* current schema: the per-packet artifacts and the shared base artifact with its
\* dispatch table are those of the current packet list, and no artifact of an earlier
\* schema survives.
C29_CleanLeavesCurrentSchemaOnly ==
    (pc = "done" /\ args.clean /\ ~args.override) =>
        \A t \in Targets :
            HasRun(t) =>
                OwnFiles(fs, t)
              = OwnFiles(Generate(t, <<>>, packets, FALSE, FALSE, no_msgpack, no_json,
                                  type_field), t)

(***************************************************************************)
(* The generated C++ code at run time: a bytes field through ToJson and     *)
(* FromJson                                                                *)
(***************************************************************************)
MaxBytes == 4        \* bytes in a bytes field

\* static const int decode_table[256]: 128 initializers, the rest zero
decode_table(c) == IF c < 128 THEN B64Index(c) ELSE 0

\* the loop "for (size_t i = 0; i < len; i += 3)" of ToJson, from index i (0-based);
\* triple is a uint32_t below 2^24
RECURSIVE CppBase64Encode(_, _)
CppBase64Encode(bytes, i) ==
    LET length == Len(bytes)
    IN  IF ~(i < length) THEN <<>>
        ELSE LET octet_a == bytes[i + 1]
                 octet_b == IF i + 1 < length THEN bytes[i + 2] ELSE 0
                 octet_c == IF i + 2 < length THEN bytes[i + 3] ELSE 0
                 triple == octet_a * 65536 + octet_b * 256 + octet_c
             IN  <<B64Char((triple \div 262144) % 64),
                   B64Char((triple \div 4096) % 64),
                   IF i + 1 < length THEN B64Char((triple \div 64) % 64) ELSE 61,
                   IF i + 2 < length THEN B64Char(triple % 64) ELSE 61>>
                 \o CppBase64Encode(bytes, i + 3)

\* the loop "for (size_t i = 0; i < len; i += 4)" of FromJson, from index i (0-based):
\* the int values handed to push_back, for a text over the base64 alphabet (the table
\* values are 0..63, so each | joins disjoint bits)
RECURSIVE CppBase64Decode(_, _)
CppBase64Decode(encoded, i) ==
    LET length == Len(encoded)
    IN  IF ~(i < length) THEN <<>>
        ELSE LET a == decode_table(encoded[i + 1])
                 b == IF i + 1 < length THEN decode_table(encoded[i + 2]) ELSE 0
                 c == IF i + 2 < length /\ encoded[i + 3] # 61
                      THEN decode_table(encoded[i + 3]) ELSE 0
                 d == IF i + 3 < length /\ encoded[i + 4] # 61
                      THEN decode_table(encoded[i + 4]) ELSE 0
             IN  <<a * 4 + b \div 16>>
                 \o (IF i + 2 < length /\ encoded[i + 3] # 61
                     THEN <<(b % 16) * 16 + c \div 4>> ELSE <<>>)
                 \o (IF i + 3 < length /\ encoded[i + 4] # 61
                     THEN <<(c % 4) * 64 + d>> ELSE <<>>)
                 \o CppBase64Decode(encoded, i + 4)

\* std::vector<unsigned char>::push_back of an int
AsUnsignedChar(n) == n % 256

\* _generate_tojson_field for a bytes field: the member written for the field; an
\* optional field without a value is written as null
CppToJsonField(optional, field) ==
    IF optional /\ field = None THEN VNull
    ELSE V("str", "", CppBase64Encode(field[1], 0))

\* the member of a default-constructed packet
CppDefault(optional) == IF optional THEN None ELSE Some(<<>>)

\* _generate_fromjson_field for a bytes field: the member is assigned only when the JSON
\* value is a string and "encoded && *encoded" holds
CppFromJsonField(optional, member) ==
    IF member.t = "str" /\ member.v # <<>>
    THEN Some([k \in DOMAIN CppBase64Decode(member.v, 0) |->
                  AsUnsignedChar(CppBase64Decode(member.v, 0)[k])])
    ELSE CppDefault(optional)

ByteValues == {0, 77, 255}
ByteSeqs == SeqsUpTo(ByteValues, MaxBytes)

InitCpp ==
    /\ pc = "start"
    /\ args = [no_msgpack |-> FALSE, no_json |-> FALSE, override |-> FALSE, clean |-> FALSE,
               targets |-> {}, all |-> FALSE]
    /\ config = ConfigMissing
    /\ fs = <<>>
    /\ dirs = {}
    /\ fs0 = fs
    /\ dirs0 = dirs
    /\ Idle
    /\ \E optional \in BOOLEAN :
          \E field \in {Some(b) : b \in ByteSeqs} \cup (IF optional THEN {None} ELSE {}) :
              rt = [step |-> "packet", optional |-> optional, field |-> field]

\* Packet::ToJson()
CppToJson ==
    /\ rt.step = "packet"
    /\ rt' = [step |-> "json", optional |-> rt.optional, field |-> rt.field,
              member |-> CppToJsonField(rt.optional, rt.field)]
    /\ UNCHANGED <<pc, args, config, type_field, no_msgpack, no_json, packets, pidx, started,
                   fs, dirs, fs0, dirs0, out>>

\* Packet::FromJson(json)
CppFromJson ==
    /\ rt.step = "json"
    /\ rt' = [step |-> "parsed", optional |-> rt.optional, field |-> rt.field,
              member |-> rt.member,
              pushed |-> IF rt.member.t = "str" THEN CppBase64Decode(rt.member.v, 0)
                         ELSE <<>>,
              back |-> CppFromJsonField(rt.optional, rt.member)]
    /\ UNCHANGED <<pc, args, config, type_field, no_msgpack, no_json, packets, pidx, started,
                   fs, dirs, fs0, dirs0, out>>

NextCpp ==
    \/ CppToJson
    \/ CppFromJson

SpecCpp == InitCpp /\ [][NextCpp]_vars

\* C30: in the generated C++ code, the base64 encoder of a bytes field followed by the
\* base64 decoder of the same field returns the original byte sequence for every byte
\* sequence of every length (length 0 and lengths not divisible by 3 included, optional
\* and non-optional fields), and every value stored as a byte is within 0..255.
C30_CppBase64RoundTrip ==
    (rt.step = "parsed" /\ rt.field # None) =>
        /\ rt.back = rt.field
        /\ \A k \in DOMAIN rt.pushed : rt.pushed[k] \in 0..255

====
